---- MODULE Spec2Model ----
(***************************************************************************)
(* A model of the core of the transaction engine: the Track (transactional *)
(* substate overlay with its lock manager), the system-loan fee reserve,   *)
(* the resource manager's supply accounting and the auth module.           *)
(* Every subsystem has its own specification over its own variables; the   *)
(* variables of the other subsystems stay at their initial values.         *)
(***************************************************************************)
EXTENDS Integers, Sequences, FiniteSets, TLC

(***************************************************************************)
(* Bounds of the model.                                                    *)
(***************************************************************************)
MaxKey == 2
MaxVal == 2
MaxLocks == 2
MaxSteps == 4

(***************************************************************************)
(* Track: src/radix-engine/src/track/track.rs                              *)
(***************************************************************************)
VARIABLES
    substate_db,                \* Track.substate_db: the read-only backing store
    mapper,                     \* DatabaseMapper M: SubstateKey -> db key (injective)
    tracked_nodes,              \* Track.tracked_nodes
    force_write_tracked_nodes,  \* Track.force_write_tracked_nodes
    locks,                      \* Track.locks: handle -> (node, key, flags)
    next_lock_id,               \* Track.next_lock_id
    phase,                      \* "running" | "reverted" | "panicked"
    steps,                      \* number of Track calls made so far
    last,                       \* the last Track call, its arguments and its result
    h_written,                  \* history: last value given by set / write through a handle
    h_given,                    \* history: last value given by any operation of the transaction
    h_force,                    \* history: state recorded when a force-write lock was released
    h_mutated                   \* history: the key was set, written through a handle or taken

trackVars == <<substate_db, mapper, tracked_nodes, force_write_tracked_nodes, locks,
               next_lock_id, phase, steps, last, h_written, h_given, h_force, h_mutated>>

\* The fee reserve and the executor around it.
VARIABLES
    fee_reserve,    \* the SystemLoanFeeReserve of the transaction
    tx              \* the transaction being executed and, once ended, its receipt

feeVars == <<fee_reserve, tx>>

\* The resource manager, the vaults and the transactions on the resource.
VARIABLES
    resource_manager,   \* the ResourceManagerSubstate of the resource
    vaults,             \* vault id -> liquid amount of the resource
    worktop,            \* amount of the resource in buckets in transit
    minted,             \* sum of the amounts of the MintFungibleResourceEvents
    burned,             \* sum of the amounts of the BurnFungibleResourceEvents
    res_tx              \* the transaction on the resource: its state and its calls so far

resVars == <<resource_manager, vaults, worktop, minted, burned, res_tx>>

\* The resource without its manager.
holdingVars == <<vaults, worktop, minted, burned, res_tx>>

\* The auth module.
VARIABLES
    auth_zone,      \* the AuthZoneStack: one set of proofs (badges) per frame, caller's last
    call_stack,     \* the actors of the frames started and not yet ended
    auth_locks,     \* substate locks the auth module holds: (node, flags)
    auth_last,      \* the last call of the auth module and its result
    h_rule          \* history: the MethodAccessRule last installed for each auth key

authVars == <<auth_zone, call_stack, auth_locks, auth_last, h_rule>>

\* The system service (typed object API) with the kernel's heap under it.
VARIABLES
    sys_nodes,          \* the heap: node id -> entity type, TypeInfo, modules and substates
    sys_next_id,        \* the kernel's node id allocator
    sys_locks,          \* lock handle -> node, module, key and flags of the lock
    sys_events,         \* the event store: the events in the order of add_event
    sys_replacements,   \* the event store: emitters re-pointed by globalize
    sys_receipt,        \* the application events of the receipt
    sys_input,          \* the blueprint the transaction works with
    sys_last            \* the last call of the system API and its result

sysVars == <<sys_nodes, sys_next_id, sys_locks, sys_events, sys_replacements,
             sys_receipt, sys_input, sys_last>>

\* A non-fungible resource, one bucket of it and the proofs created from the bucket.
VARIABLES
    nf_resource_manager,    \* the ResourceManagerSubstate of the non-fungible resource
    nf_store,               \* the non-fungible store: the ids that exist
    nf_bucket,              \* the bucket: its Liquid and Locked fields
    nf_proofs,              \* the proofs created from the bucket and not yet dropped
    nf_held,                \* id -> number of other buckets holding it
    nf_last                 \* the last call and its result

nfVars == <<nf_resource_manager, nf_store, nf_bucket, nf_proofs, nf_held, nf_last>>

vars == <<trackVars, feeVars, resVars, authVars, sysVars, nfVars>>

\* Node ids: one node that exists in the backing store, one that can only be created.
DbNode == "db_node"
NewNode == "new_node"
Nodes == {DbNode, NewNode}
Keys == 1..MaxKey
Values == 1..MaxVal
NoValue == 0

\* SubstateLockState: Read(n) is the number n >= 0, Write is WriteLock, and a
\* number m <= ReadMax is Read(usize::MAX - (ReadMax - m)): the counts a release
\* build reaches after Read(0) - 1 has wrapped.
WriteLock == -1
ReadMax == -2

\* n + 1 on usize (Read(usize::MAX) + 1 wraps to Read(0) in the build that let
\* the count wrap below zero).
read_inc(n) == IF n = ReadMax THEN 0 ELSE n + 1

no_lock == 0

is_locked(lock_state) == lock_state # 0

\* LockFlags
LockFlags == [mutable : BOOLEAN, unmodified_base : BOOLEAN, force_write : BOOLEAN]

\* SubstateLockState::try_lock; ok = FALSE is Err(SubstateLockError).
try_lock(lock_state, flags) ==
    IF lock_state = WriteLock
    THEN [ok |-> FALSE, lock_state |-> lock_state]
    ELSE IF flags.mutable
         THEN IF lock_state # 0
              THEN [ok |-> FALSE, lock_state |-> lock_state]
              ELSE [ok |-> TRUE, lock_state |-> WriteLock]
         ELSE [ok |-> TRUE, lock_state |-> read_inc(lock_state)]

\* SubstateLockState::unlock. Read(0) - 1 overflows usize: a debug build panics,
\* a release build wraps to Read(usize::MAX); both are outcomes of the call.
unlock(lock_state) ==
    IF lock_state = WriteLock THEN {[panic |-> FALSE, lock_state |-> no_lock]}
    ELSE IF lock_state = 0
         THEN {[panic |-> TRUE, lock_state |-> 0], [panic |-> FALSE, lock_state |-> ReadMax]}
         ELSE {[panic |-> FALSE, lock_state |-> lock_state - 1]}

(***************************************************************************)
(* TrackedSubstateKey / TrackedKey. tag names the variant; value is the     *)
(* RuntimeSubstate's value, lock_state its lock state (both meaningful only *)
(* for the variants that hold a RuntimeSubstate); base is the value read    *)
(* from the store in ReadExistAndWrite. "Vacant" is an absent map entry.    *)
(***************************************************************************)
RuntimeTags == {"New", "WriteOnlyUpdate", "ReadOnlyExistent",
                "ReadExistAndWriteUpdate", "ReadNonExistAndWrite"}

TK(tag, value, lock_state, base, substate_key) ==
    [tag |-> tag, value |-> value, lock_state |-> lock_state, base |-> base,
     substate_key |-> substate_key]

Vacant == TK("Vacant", NoValue, no_lock, NoValue, 0)

\* TrackedKey::get_runtime_substate_mut(..).is_some()
has_runtime_substate(t) == t.tag \in RuntimeTags

\* TrackedKey::get
get(t) == IF has_runtime_substate(t) THEN t.value ELSE NoValue

\* TrackedKey::into_value
into_value(t) == IF has_runtime_substate(t) THEN t.value ELSE NoValue

\* TrackedKey::set. In the ReadOnly(NonExistent) arm the key is replaced by
\* ReadNonExistAndWrite and then the lock state of the old variant is copied with
\* old.get_runtime_substate_mut().unwrap(): the old variant holds no
\* RuntimeSubstate, so the unwrap panics after the replacement.
TrackedKey_set(t, value) ==
    CASE t.tag = "Garbage" ->
            [panic |-> FALSE, tracked |-> TK("WriteOnlyUpdate", value, no_lock, NoValue, t.substate_key)]
      [] t.tag \in {"New", "WriteOnlyUpdate", "ReadExistAndWriteUpdate", "ReadNonExistAndWrite"} ->
            [panic |-> FALSE, tracked |-> [t EXCEPT !.value = value]]
      [] t.tag = "ReadOnlyNonExistent" ->
            [panic |-> TRUE, tracked |-> TK("ReadNonExistAndWrite", value, no_lock, NoValue, t.substate_key)]
      [] t.tag = "ReadOnlyExistent" ->
            [panic |-> FALSE,
             tracked |-> TK("ReadExistAndWriteUpdate", value, t.lock_state, t.value, t.substate_key)]
      [] t.tag = "ReadExistAndWriteDelete" ->
            [panic |-> FALSE, tracked |-> TK("ReadExistAndWriteUpdate", value, no_lock, t.base, t.substate_key)]
      [] t.tag = "WriteOnlyDelete" ->
            [panic |-> FALSE, tracked |-> TK("WriteOnlyUpdate", value, no_lock, NoValue, t.substate_key)]

\* TrackedKey::take with the WriteOnly arm leaving the key as it was.
TrackedKey_take_keeps_write(t) ==
    CASE t.tag \in {"Garbage", "ReadOnlyNonExistent"} -> [ret |-> NoValue, tracked |-> t]
      [] t.tag = "New" ->
            [ret |-> into_value(t), tracked |-> TK("Garbage", NoValue, no_lock, NoValue, t.substate_key)]
      [] t.tag \in {"WriteOnlyUpdate", "WriteOnlyDelete"} ->
            [ret |-> into_value(t), tracked |-> t]
      [] t.tag \in {"ReadExistAndWriteUpdate", "ReadExistAndWriteDelete"} ->
            [ret |-> into_value(t),
             tracked |-> TK("ReadExistAndWriteDelete", NoValue, no_lock, t.base, t.substate_key)]
      [] t.tag = "ReadNonExistAndWrite" ->
            [ret |-> into_value(t),
             tracked |-> TK("ReadOnlyNonExistent", NoValue, no_lock, NoValue, t.substate_key)]
      [] t.tag = "ReadOnlyExistent" ->
            [ret |-> into_value(t),
             tracked |-> TK("ReadExistAndWriteDelete", NoValue, no_lock, t.value, t.substate_key)]

\* TrackedKey::take
TrackedKey_take(t) ==
    CASE t.tag \in {"Garbage", "ReadOnlyNonExistent"} -> [ret |-> NoValue, tracked |-> t]
      [] t.tag = "New" ->
            [ret |-> into_value(t), tracked |-> TK("Garbage", NoValue, no_lock, NoValue, t.substate_key)]
      [] t.tag \in {"WriteOnlyUpdate", "WriteOnlyDelete"} ->
            [ret |-> into_value(t),
             tracked |-> TK("WriteOnlyDelete", NoValue, no_lock, NoValue, t.substate_key)]
      [] t.tag \in {"ReadExistAndWriteUpdate", "ReadExistAndWriteDelete"} ->
            [ret |-> into_value(t),
             tracked |-> TK("ReadExistAndWriteDelete", NoValue, no_lock, t.base, t.substate_key)]
      [] t.tag = "ReadNonExistAndWrite" ->
            [ret |-> into_value(t),
             tracked |-> TK("ReadOnlyNonExistent", NoValue, no_lock, NoValue, t.substate_key)]
      [] t.tag = "ReadOnlyExistent" ->
            [ret |-> into_value(t),
             tracked |-> TK("ReadExistAndWriteDelete", NoValue, no_lock, t.value, t.substate_key)]

\* TrackedKey::revert_writes with the ReadExistAndWrite arm keeping the written
\* value instead of the value read.
TrackedKey_revert_writes_keeps_value(t) ==
    CASE t.tag \in {"ReadOnlyExistent", "ReadOnlyNonExistent", "Garbage", "Vacant"} -> t
      [] t.tag \in {"New", "WriteOnlyUpdate", "WriteOnlyDelete"} ->
            TK("Garbage", NoValue, no_lock, NoValue, t.substate_key)
      [] t.tag \in {"ReadExistAndWriteUpdate", "ReadExistAndWriteDelete"} ->
            TK("ReadOnlyExistent", t.value, no_lock, NoValue, t.substate_key)
      [] t.tag = "ReadNonExistAndWrite" ->
            TK("ReadOnlyNonExistent", NoValue, no_lock, NoValue, t.substate_key)

\* TrackedKey::revert_writes
TrackedKey_revert_writes(t) ==
    CASE t.tag \in {"ReadOnlyExistent", "ReadOnlyNonExistent", "Garbage", "Vacant"} -> t
      [] t.tag \in {"New", "WriteOnlyUpdate", "WriteOnlyDelete"} ->
            TK("Garbage", NoValue, no_lock, NoValue, t.substate_key)
      [] t.tag \in {"ReadExistAndWriteUpdate", "ReadExistAndWriteDelete"} ->
            TK("ReadOnlyExistent", t.base, no_lock, NoValue, t.substate_key)
      [] t.tag = "ReadNonExistAndWrite" ->
            TK("ReadOnlyNonExistent", NoValue, no_lock, NoValue, t.substate_key)

(***************************************************************************)
(* TrackedNode with its single TrackedModule. substates is the BTreeMap of  *)
(* the module, indexed by db key; range_read is the module's watermark.     *)
(***************************************************************************)
NoRange == -1

AbsentNode ==
    [present |-> FALSE, is_new |-> FALSE, has_module |-> FALSE,
     substates |-> [d \in Keys |-> Vacant], range_read |-> NoRange]

\* M::map_to_db_key
map_to_db_key(k) == mapper[k]

\* Track::get_tracked_module: entry(node).or_insert(TrackedNode::new(false)),
\* entry(module).or_insert(TrackedModule::new())
get_tracked_module(node) == [node EXCEPT !.present = TRUE, !.has_module = TRUE]

\* Track::get_tracked_substate_virtualize: the tracked nodes after the call (the
\* key is loaded from the store, or virtualized, when it has no entry yet).
get_tracked_substate_virtualize(tns, n, k, virtualize) ==
    LET d == map_to_db_key(k)
        node == get_tracked_module(tns[n])
        fresh == IF substate_db[n][d] # NoValue
                 THEN TK("ReadOnlyExistent", substate_db[n][d], no_lock, NoValue, k)
                 ELSE IF virtualize # NoValue
                      THEN TK("ReadNonExistAndWrite", virtualize, no_lock, NoValue, k)
                      ELSE TK("ReadOnlyNonExistent", NoValue, no_lock, NoValue, k)
    IN  [tns EXCEPT ![n] =
            [node EXCEPT !.substates[d] =
                IF node.substates[d].tag = "Vacant" THEN fresh ELSE node.substates[d]]]

\* Track::get_tracked_substate
get_tracked_substate(tns, n, k) == get_tracked_substate_virtualize(tns, n, k, NoValue)

\* The entry of key k of node n.
Tracked(tns, n, k) == tns[n].substates[map_to_db_key(k)]

SetTracked(tns, n, k, t) == [tns EXCEPT ![n].substates[map_to_db_key(k)] = t]

\* A node the kernel can name: it is in the store or was created in this transaction.
NodeExists(n) == n = DbNode \/ tracked_nodes[n].present

NoFlags == [mutable |-> FALSE, unmodified_base |-> FALSE, force_write |-> FALSE]

\* The record of a Track call kept in `last`: the operation, its result, and the
\* value (ret) or values (items) it returned.
Call(op, result, ret) == [op |-> op, result |-> result, ret |-> ret, items |-> <<>>]

NoHistory == [n \in Nodes |-> [k \in Keys |-> NoValue]]

EmptyForce == [order |-> <<>>, substates |-> [n \in Nodes |-> [d \in Keys |-> Vacant]]]

\* Track::new over a backing store that holds some keys of DbNode.
TrackInit ==
    /\ substate_db \in {db \in [Nodes -> [Keys -> Values \cup {NoValue}]] :
                            /\ \A d \in Keys : db[NewNode][d] = NoValue
                            /\ db[DbNode][1] # NoValue
                            /\ \A d \in Keys : db[DbNode][d] \in {NoValue, ((d - 1) % MaxVal) + 1}}
    /\ mapper = [k \in Keys |-> MaxKey + 1 - k]
    /\ tracked_nodes = [n \in Nodes |-> AbsentNode]
    /\ force_write_tracked_nodes = EmptyForce
    /\ locks = {}
    /\ next_lock_id = 0
    /\ phase = "running"
    /\ steps = 0
    /\ last = Call("new", "Ok", NoValue)
    /\ h_written = NoHistory
    /\ h_given = NoHistory
    /\ h_force = [n \in Nodes |-> [k \in Keys |-> Vacant]]
    /\ h_mutated = [n \in Nodes |-> [k \in Keys |-> FALSE]]

CanCall == phase = "running" /\ steps < MaxSteps

\* Track::create_node
create_node(n, node_substates) ==
    /\ CanCall
    /\ n = NewNode /\ ~tracked_nodes[n].present
    /\ tracked_nodes' = [tracked_nodes EXCEPT ![n] =
            [present |-> TRUE, is_new |-> TRUE, has_module |-> TRUE,
             substates |-> [d \in Keys |->
                LET k == CHOOSE x \in Keys : map_to_db_key(x) = d
                IN  IF node_substates[k] = NoValue THEN Vacant
                    ELSE TK("New", node_substates[k], no_lock, NoValue, k)],
             range_read |-> NoRange]]
    /\ last' = Call("create_node", "Ok", NoValue)
    /\ h_given' = [h_given EXCEPT ![n] =
            [k \in Keys |-> IF node_substates[k] = NoValue THEN h_given[n][k]
                            ELSE node_substates[k]]]
    /\ steps' = steps + 1
    /\ UNCHANGED <<substate_db, mapper, force_write_tracked_nodes, locks, next_lock_id,
                   phase, h_written, h_force, h_mutated>>
    /\ UNCHANGED <<feeVars, resVars, authVars, sysVars, nfVars>>

\* Track::set_substate
set_substate(n, k, value) ==
    /\ CanCall
    /\ NodeExists(n)
    /\ LET d == map_to_db_key(k)
           node == get_tracked_module(tracked_nodes[n])
           t == node.substates[d]
           locked == t.tag # "Vacant" /\ has_runtime_substate(t) /\ is_locked(t.lock_state)
           r == IF t.tag = "Vacant"
                THEN [panic |-> FALSE, tracked |-> TK("WriteOnlyUpdate", value, no_lock, NoValue, k)]
                ELSE TrackedKey_set(t, value)
       IN  /\ tracked_nodes' = [tracked_nodes EXCEPT ![n] =
                    IF locked THEN node ELSE [node EXCEPT !.substates[d] = r.tracked]]
           /\ phase' = IF ~locked /\ r.panic THEN "panicked" ELSE phase
           /\ last' = Call("set", IF locked THEN "SubstateLocked" ELSE IF r.panic THEN "panic" ELSE "Ok", NoValue)
           /\ h_written' = IF locked \/ r.panic THEN h_written
                           ELSE [h_written EXCEPT ![n][k] = value]
           /\ h_given' = IF locked \/ r.panic THEN h_given
                         ELSE [h_given EXCEPT ![n][k] = value]
           /\ h_mutated' = IF locked \/ r.panic THEN h_mutated
                           ELSE [h_mutated EXCEPT ![n][k] = TRUE]
    /\ steps' = steps + 1
    /\ UNCHANGED <<substate_db, mapper, force_write_tracked_nodes, locks, next_lock_id, h_force>>
    /\ UNCHANGED <<feeVars, resVars, authVars, sysVars, nfVars>>

\* Track::take_substate
take_substate(n, k) ==
    /\ CanCall
    /\ NodeExists(n)
    /\ LET tns == get_tracked_substate(tracked_nodes, n, k)
           t == Tracked(tns, n, k)
           locked == has_runtime_substate(t) /\ is_locked(t.lock_state)
           r == TrackedKey_take(t)
       IN  /\ tracked_nodes' = IF locked THEN tns ELSE SetTracked(tns, n, k, r.tracked)
           /\ last' = Call("take", IF locked THEN "SubstateLocked" ELSE "Ok", IF locked THEN NoValue ELSE r.ret)
           /\ h_mutated' = IF locked \/ r.ret = NoValue THEN h_mutated
                           ELSE [h_mutated EXCEPT ![n][k] = TRUE]
    /\ steps' = steps + 1
    /\ UNCHANGED <<substate_db, mapper, force_write_tracked_nodes, locks, next_lock_id,
                   phase, h_written, h_given, h_force>>
    /\ UNCHANGED <<feeVars, resVars, authVars, sysVars, nfVars>>

\* The substate state check with the arm of the updated keys left out.
check_unmodified_base_new_only(t, flags) ==
    IF flags.unmodified_base /\ t.tag \in {"New", "Garbage"}
    THEN "LockUnmodifiedBaseOnNewSubstate"
    ELSE "Ok"

\* "Check substate state" of Track::acquire_lock_virtualize: the error the
\* UNMODIFIED_BASE flag gives on the tracked key, or Ok.
check_unmodified_base(t, flags) ==
    IF flags.unmodified_base /\ t.tag \in {"New", "Garbage"}
    THEN "LockUnmodifiedBaseOnNewSubstate"
    ELSE IF flags.unmodified_base /\ t.tag \in
                {"WriteOnlyUpdate", "WriteOnlyDelete", "ReadExistAndWriteUpdate",
                 "ReadExistAndWriteDelete", "ReadNonExistAndWrite"}
    THEN "LockUnmodifiedBaseOnUpdatedSubstate"
    ELSE "Ok"

\* Track::acquire_lock_virtualize (with Track::new_lock_handle)
acquire_lock_virtualize(n, k, flags, virtualize) ==
    /\ CanCall
    /\ NodeExists(n)
    /\ next_lock_id < MaxLocks
    /\ LET tns == get_tracked_substate_virtualize(tracked_nodes, n, k, virtualize)
           t == Tracked(tns, n, k)
           virtualized == /\ tracked_nodes[n].substates[map_to_db_key(k)].tag = "Vacant"
                          /\ t.tag = "ReadNonExistAndWrite"
           l == try_lock(t.lock_state, flags)
           result ==
                IF check_unmodified_base(t, flags) # "Ok" THEN check_unmodified_base(t, flags)
                ELSE IF ~has_runtime_substate(t) THEN "NotFound"
                ELSE IF ~l.ok THEN "SubstateLocked"
                ELSE "Ok"
       IN  /\ tracked_nodes' = IF result = "Ok"
                               THEN SetTracked(tns, n, k, [t EXCEPT !.lock_state = l.lock_state])
                               ELSE tns
           /\ locks' = IF result = "Ok"
                       THEN locks \cup {[handle |-> next_lock_id, node |-> n, key |-> k, flags |-> flags]}
                       ELSE locks
           /\ next_lock_id' = IF result = "Ok" THEN next_lock_id + 1 ELSE next_lock_id
           /\ last' = Call("acquire_lock", result, NoValue)
           /\ h_given' = IF virtualized THEN [h_given EXCEPT ![n][k] = virtualize] ELSE h_given
    /\ steps' = steps + 1
    /\ UNCHANGED <<substate_db, mapper, force_write_tracked_nodes, phase, h_written, h_force,
                   h_mutated>>
    /\ UNCHANGED <<feeVars, resVars, authVars, sysVars, nfVars>>

\* Track::release_lock
release_lock(lock) ==
    /\ CanCall
    /\ lock \in locks
    /\ LET n == lock.node
           k == lock.key
           tns == get_tracked_substate(tracked_nodes, n, k)
           t == Tracked(tns, n, k)
       IN  \E u \in (IF has_runtime_substate(t) THEN unlock(t.lock_state)
                     ELSE {[panic |-> TRUE, lock_state |-> t.lock_state]}) :
             LET released == [t EXCEPT !.lock_state = u.lock_state]
                 recorded == ~u.panic /\ lock.flags.force_write
             IN  /\ locks' = locks \ {lock}
                 /\ tracked_nodes' = IF u.panic THEN tns ELSE SetTracked(tns, n, k, released)
                 /\ force_write_tracked_nodes' =
                        IF recorded
                        THEN [order |-> IF \E i \in 1..Len(force_write_tracked_nodes.order) :
                                                force_write_tracked_nodes.order[i] = n
                                        THEN force_write_tracked_nodes.order
                                        ELSE Append(force_write_tracked_nodes.order, n),
                              substates |-> [force_write_tracked_nodes.substates
                                                EXCEPT ![n][map_to_db_key(k)] = released]]
                        ELSE force_write_tracked_nodes
                 /\ phase' = IF u.panic THEN "panicked" ELSE phase
                 /\ last' = Call("release_lock", IF u.panic THEN "panic" ELSE "Ok", NoValue)
                 /\ h_force' = IF recorded THEN [h_force EXCEPT ![n][k] = released] ELSE h_force
    /\ steps' = steps + 1
    /\ UNCHANGED <<substate_db, mapper, next_lock_id, h_written, h_given, h_mutated>>
    /\ UNCHANGED <<feeVars, resVars, authVars, sysVars, nfVars>>

\* Track::read_substate
read_substate(lock) ==
    /\ CanCall
    /\ lock \in locks
    /\ LET tns == get_tracked_substate(tracked_nodes, lock.node, lock.key)
           t == Tracked(tns, lock.node, lock.key)
       IN  /\ tracked_nodes' = tns
           /\ phase' = IF get(t) = NoValue THEN "panicked" ELSE phase
           /\ last' = Call("read", IF get(t) = NoValue THEN "panic" ELSE "Ok", get(t))
    /\ steps' = steps + 1
    /\ UNCHANGED <<substate_db, mapper, force_write_tracked_nodes, locks, next_lock_id,
                   h_written, h_given, h_force, h_mutated>>
    /\ UNCHANGED <<feeVars, resVars, authVars, sysVars, nfVars>>

\* The match of Track::update_substate with the ReadOnly(Existent) arm keeping the
\* value read from the store.
update_tracked_stale(t, value) ==
    CASE t.tag \in {"New", "WriteOnlyUpdate", "ReadExistAndWriteUpdate", "ReadNonExistAndWrite"} ->
            [panic |-> FALSE, tracked |-> [t EXCEPT !.value = value]]
      [] t.tag = "ReadOnlyNonExistent" ->
            [panic |-> TRUE, tracked |-> TK("ReadNonExistAndWrite", value, no_lock, NoValue, t.substate_key)]
      [] t.tag = "ReadOnlyExistent" ->
            [panic |-> FALSE,
             tracked |-> TK("ReadExistAndWriteUpdate", t.value, t.lock_state, t.value, t.substate_key)]
      [] t.tag \in {"WriteOnlyDelete", "ReadExistAndWriteDelete", "Garbage"} ->
            [panic |-> TRUE, tracked |-> t]

\* The match of Track::update_substate on the tracked key. The ReadOnly(NonExistent)
\* arm copies the lock state out of the old variant with unwrap(), as
\* TrackedKey::set does, and panics after the replacement.
update_tracked(t, value) ==
    CASE t.tag \in {"New", "WriteOnlyUpdate", "ReadExistAndWriteUpdate", "ReadNonExistAndWrite"} ->
            [panic |-> FALSE, tracked |-> [t EXCEPT !.value = value]]
      [] t.tag = "ReadOnlyNonExistent" ->
            [panic |-> TRUE, tracked |-> TK("ReadNonExistAndWrite", value, no_lock, NoValue, t.substate_key)]
      [] t.tag = "ReadOnlyExistent" ->
            [panic |-> FALSE,
             tracked |-> TK("ReadExistAndWriteUpdate", value, t.lock_state, t.value, t.substate_key)]
      [] t.tag \in {"WriteOnlyDelete", "ReadExistAndWriteDelete", "Garbage"} ->
            [panic |-> TRUE, tracked |-> t]

\* Track::update_substate
update_substate(lock, value) ==
    /\ CanCall
    /\ lock \in locks
    /\ LET n == lock.node
           k == lock.key
           tns == get_tracked_substate(tracked_nodes, n, k)
           t == Tracked(tns, n, k)
           r == update_tracked(t, value)
           panic == ~lock.flags.mutable \/ r.panic
       IN  /\ tracked_nodes' = IF ~lock.flags.mutable THEN tracked_nodes
                               ELSE SetTracked(tns, n, k, r.tracked)
           /\ phase' = IF panic THEN "panicked" ELSE phase
           /\ last' = Call("write", IF panic THEN "panic" ELSE "Ok", NoValue)
           /\ h_written' = IF panic THEN h_written ELSE [h_written EXCEPT ![n][k] = value]
           /\ h_given' = IF panic THEN h_given ELSE [h_given EXCEPT ![n][k] = value]
           /\ h_mutated' = IF panic THEN h_mutated ELSE [h_mutated EXCEPT ![n][k] = TRUE]
    /\ steps' = steps + 1
    /\ UNCHANGED <<substate_db, mapper, force_write_tracked_nodes, locks, next_lock_id, h_force>>
    /\ UNCHANGED <<feeVars, resVars, authVars, sysVars, nfVars>>

\* First loop of Track::take_substates: the tracked entries in db-key order, from
\* db key d on. early = TRUE is the `return items` inside the loop.
RECURSIVE take_tracked(_, _, _, _)
take_tracked(substates, d, items, count) ==
    IF d > MaxKey THEN [substates |-> substates, items |-> items, early |-> FALSE]
    ELSE IF substates[d].tag = "Vacant" THEN take_tracked(substates, d + 1, items, count)
    ELSE IF Len(items) = count THEN [substates |-> substates, items |-> items, early |-> TRUE]
    ELSE LET r == TrackedKey_take(substates[d])
         IN  take_tracked([substates EXCEPT ![d] = r.tracked], d + 1,
                          IF r.ret # NoValue THEN Append(items, r.ret) ELSE items, count)

\* Second loop of Track::take_substates: the store's entries of the module in
\* db-key order, from db key d on. tracked is the module's map before the loop
\* (contains_key); new_updates are inserted after it. num_iterations counts the
\* calls of TrackedIter::next, the one that returns None included.
RECURSIVE take_from_db(_, _, _, _, _, _, _)
take_from_db(n, tracked, d, items, count, new_updates, num_iterations) ==
    IF d > MaxKey
    THEN [items |-> items, new_updates |-> new_updates, num_iterations |-> num_iterations + 1]
    ELSE IF substate_db[n][d] = NoValue
    THEN take_from_db(n, tracked, d + 1, items, count, new_updates, num_iterations)
    ELSE IF Len(items) = count
    THEN [items |-> items, new_updates |-> new_updates, num_iterations |-> num_iterations + 1]
    ELSE IF tracked[d].tag # "Vacant"
    THEN take_from_db(n, tracked, d + 1, items, count, new_updates, num_iterations + 1)
    ELSE take_from_db(n, tracked, d + 1, Append(items, substate_db[n][d]), count,
                      [new_updates EXCEPT ![d] =
                            \* SubstateKey::Map(value.as_slice().to_vec())
                            TK("ReadExistAndWriteDelete", NoValue, no_lock,
                               substate_db[n][d], substate_db[n][d])],
                      num_iterations + 1)

\* The watermark overwritten by the last scan instead of raised to it.
next_range_read_overwrite(range_read, num_iterations) == num_iterations

\* range_read.map(|cur| u32::max(cur, num_iterations)).unwrap_or(num_iterations)
next_range_read(range_read, num_iterations) ==
    IF range_read = NoRange THEN num_iterations
    ELSE IF range_read > num_iterations THEN range_read ELSE num_iterations

\* Track::take_substates
take_substates(n, count) ==
    /\ CanCall
    /\ NodeExists(n)
    /\ LET node == tracked_nodes[n]
           first == IF node.present /\ node.has_module
                    THEN take_tracked(node.substates, 1, <<>>, count)
                    ELSE [substates |-> node.substates, items |-> <<>>, early |-> FALSE]
           db == take_from_db(n, first.substates, 1, first.items, count,
                              [d \in Keys |-> Vacant], 0)
           after_first == [node EXCEPT !.substates = first.substates]
           tracked_module == get_tracked_module(after_first)
       IN  /\ tracked_nodes' = [tracked_nodes EXCEPT ![n] =
                    IF first.early \/ node.is_new THEN after_first
                    ELSE [tracked_module EXCEPT
                            !.range_read = next_range_read(tracked_module.range_read,
                                                           db.num_iterations),
                            !.substates = [d \in Keys |->
                                IF db.new_updates[d].tag # "Vacant" THEN db.new_updates[d]
                                ELSE first.substates[d]]]]
           /\ last' = [Call("take_n", "Ok", NoValue)
                            EXCEPT !.items = IF first.early \/ node.is_new
                                             THEN first.items ELSE db.items]
           /\ h_mutated' = [h_mutated EXCEPT ![n] = [k \in Keys |->
                    \/ h_mutated[n][k]
                    \/ tracked_nodes'[n].substates[map_to_db_key(k)]
                            # node.substates[map_to_db_key(k)]]]
    /\ steps' = steps + 1
    /\ UNCHANGED <<substate_db, mapper, force_write_tracked_nodes, locks, next_lock_id,
                   phase, h_written, h_given, h_force>>
    /\ UNCHANGED <<feeVars, resVars, authVars, sysVars, nfVars>>

\* First loop of Track::scan_substates (and the is_new loop of
\* Track::scan_sorted_substates): the values of the tracked entries in db-key order.
RECURSIVE scan_tracked(_, _, _, _)
scan_tracked(substates, d, items, count) ==
    IF d > MaxKey THEN [items |-> items, early |-> FALSE]
    ELSE IF substates[d].tag = "Vacant" THEN scan_tracked(substates, d + 1, items, count)
    ELSE IF Len(items) = count THEN [items |-> items, early |-> TRUE]
    ELSE scan_tracked(substates, d + 1,
                      IF get(substates[d]) # NoValue THEN Append(items, get(substates[d]))
                      ELSE items, count)

\* Second loop of Track::scan_substates: the store's entries that are not tracked.
RECURSIVE scan_db(_, _, _, _, _, _)
scan_db(n, tracked, d, items, count, num_iterations) ==
    IF d > MaxKey THEN [items |-> items, num_iterations |-> num_iterations + 1]
    ELSE IF substate_db[n][d] = NoValue
    THEN scan_db(n, tracked, d + 1, items, count, num_iterations)
    ELSE IF Len(items) = count THEN [items |-> items, num_iterations |-> num_iterations + 1]
    ELSE scan_db(n, tracked, d + 1,
                 IF tracked[d].tag # "Vacant" THEN items ELSE Append(items, substate_db[n][d]),
                 count, num_iterations + 1)

\* Track::scan_substates
scan_substates(n, count) ==
    /\ CanCall
    /\ NodeExists(n)
    /\ LET node == tracked_nodes[n]
           first == IF node.present /\ node.has_module
                    THEN scan_tracked(node.substates, 1, <<>>, count)
                    ELSE [items |-> <<>>, early |-> FALSE]
           db == scan_db(n, node.substates, 1, first.items, count, 0)
           tracked_module == get_tracked_module(node)
           returns_early == first.early \/ node.is_new
       IN  /\ tracked_nodes' = IF returns_early THEN tracked_nodes
                               ELSE [tracked_nodes EXCEPT ![n] =
                                        [tracked_module EXCEPT !.range_read =
                                            next_range_read(tracked_module.range_read,
                                                            db.num_iterations)]]
           /\ last' = [Call("scan", "Ok", NoValue)
                            EXCEPT !.items = IF returns_early THEN first.items ELSE db.items]
    /\ steps' = steps + 1
    /\ UNCHANGED <<substate_db, mapper, force_write_tracked_nodes, locks, next_lock_id,
                   phase, h_written, h_given, h_force, h_mutated>>
    /\ UNCHANGED <<feeVars, resVars, authVars, sysVars, nfVars>>

\* tracked_iter.take(count) over substate_db.list_substates: the first count
\* entries of the store, in db-key order.
RECURSIVE list_substates_take(_, _, _, _)
list_substates_take(n, d, items, count) ==
    IF d > MaxKey \/ Len(items) = count THEN items
    ELSE list_substates_take(n, d + 1,
                             IF substate_db[n][d] = NoValue THEN items
                             ELSE Append(items, substate_db[n][d]), count)

\* Track::scan_sorted_substates
scan_sorted_substates(n, count) ==
    /\ CanCall
    /\ NodeExists(n)
    /\ LET node == tracked_nodes[n]
           new_items == IF node.has_module
                        THEN scan_tracked(node.substates, 1, <<>>, count).items
                        ELSE <<>>
           items == list_substates_take(n, 1, <<>>, count)
           tracked_module == get_tracked_module(node)
       IN  /\ tracked_nodes' = IF node.is_new THEN tracked_nodes
                               ELSE [tracked_nodes EXCEPT ![n] =
                                        [tracked_module EXCEPT !.range_read =
                                            next_range_read(tracked_module.range_read, Len(items))]]
           /\ last' = [Call("scan_sorted", "Ok", NoValue)
                            EXCEPT !.items = IF node.is_new THEN new_items ELSE items]
    /\ steps' = steps + 1
    /\ UNCHANGED <<substate_db, mapper, force_write_tracked_nodes, locks, next_lock_id,
                   phase, h_written, h_given, h_force, h_mutated>>
    /\ UNCHANGED <<feeVars, resVars, authVars, sysVars, nfVars>>

\* The replay loop of Track::revert_non_force_write_changes over the force-write
\* nodes from position i of their insertion order on: each key of the node is
\* written back; tracked_nodes.get_mut(&node_id).unwrap() panics when the node is
\* no longer tracked (it was new and has been dropped by retain).
RECURSIVE replay_force_writes(_, _, _)
replay_force_writes(tns, force, i) ==
    IF i > Len(force.order) THEN [panic |-> FALSE, tracked_nodes |-> tns]
    ELSE LET n == force.order[i]
         IN  IF ~tns[n].present THEN [panic |-> TRUE, tracked_nodes |-> tns]
             ELSE replay_force_writes(
                    [tns EXCEPT ![n].substates = [d \in Keys |->
                        IF force.substates[n][d].tag # "Vacant" THEN force.substates[n][d]
                        ELSE tns[n].substates[d]]],
                    force, i + 1)

\* TrackedNode::revert_writes leaving every key as it was.
TrackedNode_keeps_writes(node) == node

\* TrackedNode::revert_writes / TrackedModule::revert_writes
TrackedNode_revert_writes(node) ==
    [node EXCEPT !.substates = [d \in Keys |-> TrackedKey_revert_writes(node.substates[d])]]

\* tracked_nodes.retain(|_, tracked_node| !tracked_node.is_new)
retain_not_new(tns) == [n \in Nodes |-> IF tns[n].is_new THEN AbsentNode ELSE tns[n]]

\* Track::revert_non_force_write_changes
revert_non_force_write_changes ==
    /\ CanCall
    /\ LET retained == retain_not_new(tracked_nodes)
           reverted == [n \in Nodes |-> TrackedNode_revert_writes(retained[n])]
           r == replay_force_writes(reverted, force_write_tracked_nodes, 1)
       IN  /\ tracked_nodes' = r.tracked_nodes
           /\ phase' = IF r.panic THEN "panicked" ELSE "reverted"
           /\ last' = Call("revert", IF r.panic THEN "panic" ELSE "Ok", NoValue)
    /\ force_write_tracked_nodes' = EmptyForce
    /\ steps' = steps + 1
    /\ UNCHANGED <<substate_db, mapper, locks, next_lock_id, h_written, h_given, h_force,
                   h_mutated>>
    /\ UNCHANGED <<feeVars, resVars, authVars, sysVars, nfVars>>

\* The DatabaseUpdate to_state_updates derives from a tracked key.
NoUpdate == [kind |-> "None", value |-> NoValue]

database_update(t) ==
    CASE t.tag \in {"Vacant", "ReadOnlyExistent", "ReadOnlyNonExistent", "Garbage"} -> NoUpdate
      [] t.tag \in {"ReadNonExistAndWrite", "New", "ReadExistAndWriteUpdate", "WriteOnlyUpdate"} ->
            [kind |-> "Set", value |-> t.value]
      [] t.tag \in {"ReadExistAndWriteDelete", "WriteOnlyDelete"} ->
            [kind |-> "Delete", value |-> NoValue]

\* to_state_updates(track.finalize()).database_updates: per node, db key -> update.
database_updates == [n \in Nodes |-> [d \in Keys |-> database_update(tracked_nodes[n].substates[d])]]

\* The SubstateKeys a tracked key can carry: the keys the calls name and
\* SubstateKey::Map(value) of Track::take_substates.
SubstateKeys == 1..(IF MaxKey > MaxVal THEN MaxKey ELSE MaxVal)

\* The inner loop of to_state_updates building node_module_updates: the tracked
\* keys in db-key order from d on, each update inserted under tracked.substate_key.
RECURSIVE node_module_updates(_, _, _)
node_module_updates(substates, d, acc) ==
    IF d > MaxKey THEN acc
    ELSE LET update == database_update(substates[d])
         IN  node_module_updates(substates, d + 1,
                                 IF update = NoUpdate THEN acc
                                 ELSE [acc EXCEPT ![substates[d].substate_key] = update])

\* to_state_updates(track.finalize()).system_updates: per node, SubstateKey -> update.
system_updates ==
    [n \in Nodes |-> node_module_updates(tracked_nodes[n].substates, 1,
                                         [k \in SubstateKeys |-> NoUpdate])]

(***************************************************************************)
(* The Track specification: any sequence of at most MaxSteps calls of the   *)
(* SubstateStore interface and of revert_non_force_write_changes.           *)
(***************************************************************************)
\* The inputs the calls are tried with.
\* LockFlags::read_only(), MUTABLE, MUTABLE | FORCE_WRITE, UNMODIFIED_BASE and
\* MUTABLE | UNMODIFIED_BASE | FORCE_WRITE (the fee lock).
LockFlagsChoices ==
    {f \in LockFlags : (f.force_write => f.mutable) /\ (f.unmodified_base /\ f.mutable => f.force_write)}

\* A created node holds a value under its first key, under all keys, or under none.
NodeSubstatesChoices ==
    {[k \in Keys |-> NoValue], [k \in Keys |-> IF k = 1 THEN MaxVal ELSE NoValue],
     [k \in Keys |-> ((k - 1) % MaxVal) + 1]}

TrackNext ==
    \/ \E node_substates \in NodeSubstatesChoices : create_node(NewNode, node_substates)
    \/ \E n \in Nodes, k \in Keys, value \in Values : set_substate(n, k, value)
    \/ \E n \in Nodes, k \in Keys : take_substate(n, k)
    \/ \E n \in Nodes, k \in Keys, flags \in LockFlagsChoices, virtualize \in {NoValue, MaxVal} :
            acquire_lock_virtualize(n, k, flags, virtualize)
    \/ \E lock \in locks : release_lock(lock)
    \/ \E lock \in locks : read_substate(lock)
    \/ \E lock \in locks, value \in Values : update_substate(lock, value)
    \/ \E n \in Nodes, count \in 1..MaxKey : scan_substates(n, count)
    \/ \E n \in Nodes, count \in 1..MaxKey : scan_sorted_substates(n, count)
    \/ \E n \in Nodes, count \in 1..MaxKey : take_substates(n, count)
    \/ revert_non_force_write_changes

(***************************************************************************)
(* Fee reserve:                                                             *)
(* src/radix-engine/src/system/kernel_modules/costing/fee_reserve.rs        *)
(* XRD amounts are whole numbers of the smallest unit, as the u128 of the   *)
(* code; under the bounds below no u32 or u128 sum comes near its width, so *)
(* the Overflow error of checked_add is not reachable.                      *)
(***************************************************************************)
\* Bounds of the fee model.
CostUnitLimit == 5
MaxLoan == 3
MaxUnits == 2
MaxPayments == 2

\* Three of the CostingReason variants (one charged before execution, two
\* during) and the two RoyaltyReceiver variants.
Reasons == {"TxBaseCost", "RunNative", "RunSystem"}
Receivers == {"Package", "Component"}
FeeOk == "Ok"

RECURSIVE SumOver(_, _)
\* iter().sum() of a table of cost units
SumOver(f, S) == IF S = {} THEN 0 ELSE LET x == CHOOSE y \in S : TRUE IN f[x] + SumOver(f, S \ {x})

\* SystemLoanFeeReserve::new
SystemLoanFeeReserve_new(cost_unit_price, tip_percentage, cost_unit_limit, system_loan, abort_when_loan_repaid) ==
    [cost_unit_price |-> cost_unit_price,
     tip_percentage |-> tip_percentage,
     payments |-> <<>>,
     remaining_loan_balance |-> system_loan,
     remaining_xrd_balance |-> 0,
     xrd_owed |-> 0,
     total_cost_units_consumed |-> 0,
     cost_unit_limit |-> cost_unit_limit,
     execution_deferred |-> [r \in Reasons |-> 0],
     execution_deferred_total |-> 0,
     execution |-> [r \in Reasons |-> 0],
     royalty |-> [r \in Receivers |-> 0],
     effective_execution_price |-> cost_unit_price + (cost_unit_price * tip_percentage) \div 100,
     effective_royalty_price |-> cost_unit_price,
     abort_when_loan_repaid |-> abort_when_loan_repaid]

\* A call's outcome: the error (or Ok) and the reserve as the call leaves it.
FeeResult(err, fr) == [err |-> err, fr |-> fr]

execution_price(fr) == fr.effective_execution_price

royalty_price(fr) == fr.effective_royalty_price

\* SystemLoanFeeReserve::consume without the check of the cost unit limit.
consume_unlimited(fr, cost_units_to_consume, price) ==
    IF fr.remaining_loan_balance >= cost_units_to_consume
    THEN FeeResult(FeeOk,
            [fr EXCEPT !.xrd_owed = @ + price * cost_units_to_consume,
                       !.remaining_loan_balance = @ - cost_units_to_consume,
                       !.total_cost_units_consumed = @ + cost_units_to_consume])
    ELSE IF fr.remaining_loan_balance = 0
    THEN LET from_balance == price * cost_units_to_consume
         IN  IF fr.remaining_xrd_balance < from_balance
             THEN FeeResult("InsufficientBalance", fr)
             ELSE FeeResult(FeeOk,
                    [fr EXCEPT !.remaining_xrd_balance = @ - from_balance,
                               !.total_cost_units_consumed = @ + cost_units_to_consume])
    ELSE LET from_balance == price * (cost_units_to_consume - fr.remaining_loan_balance)
         IN  IF fr.remaining_xrd_balance < from_balance
             THEN FeeResult("InsufficientBalance", fr)
             ELSE FeeResult(FeeOk,
                    [fr EXCEPT !.xrd_owed = @ + price * fr.remaining_loan_balance,
                               !.remaining_loan_balance = 0,
                               !.remaining_xrd_balance = @ - from_balance,
                               !.total_cost_units_consumed = @ + cost_units_to_consume])

\* SystemLoanFeeReserve::consume that pays a whole charge out of the loan as
\* long as any of the loan is left.
consume_loan_first(fr, cost_units_to_consume, price) ==
    IF fr.total_cost_units_consumed + cost_units_to_consume > fr.cost_unit_limit
    THEN FeeResult("LimitExceeded", fr)
    ELSE IF fr.remaining_loan_balance > 0
    THEN FeeResult(FeeOk,
            [fr EXCEPT !.xrd_owed = @ + price * cost_units_to_consume,
                       !.remaining_loan_balance =
                            IF @ >= cost_units_to_consume THEN @ - cost_units_to_consume ELSE 0,
                       !.total_cost_units_consumed = @ + cost_units_to_consume])
    ELSE LET from_balance == price * cost_units_to_consume
         IN  IF fr.remaining_xrd_balance < from_balance
             THEN FeeResult("InsufficientBalance", fr)
             ELSE FeeResult(FeeOk,
                    [fr EXCEPT !.remaining_xrd_balance = @ - from_balance,
                               !.total_cost_units_consumed = @ + cost_units_to_consume])

\* SystemLoanFeeReserve::consume
consume(fr, cost_units_to_consume, price) ==
    IF fr.total_cost_units_consumed + cost_units_to_consume > fr.cost_unit_limit
    THEN FeeResult("LimitExceeded", fr)
    ELSE IF fr.remaining_loan_balance >= cost_units_to_consume
    THEN FeeResult(FeeOk,
            [fr EXCEPT !.xrd_owed = @ + price * cost_units_to_consume,
                       !.remaining_loan_balance = @ - cost_units_to_consume,
                       !.total_cost_units_consumed = @ + cost_units_to_consume])
    ELSE IF fr.remaining_loan_balance = 0
    THEN LET from_balance == price * cost_units_to_consume
         IN  IF fr.remaining_xrd_balance < from_balance
             THEN FeeResult("InsufficientBalance", fr)
             ELSE FeeResult(FeeOk,
                    [fr EXCEPT !.remaining_xrd_balance = @ - from_balance,
                               !.total_cost_units_consumed = @ + cost_units_to_consume])
    ELSE LET from_balance == price * (cost_units_to_consume - fr.remaining_loan_balance)
         IN  IF fr.remaining_xrd_balance < from_balance
             THEN FeeResult("InsufficientBalance", fr)
             ELSE FeeResult(FeeOk,
                    [fr EXCEPT !.xrd_owed = @ + price * fr.remaining_loan_balance,
                               !.remaining_loan_balance = 0,
                               !.remaining_xrd_balance = @ - from_balance,
                               !.total_cost_units_consumed = @ + cost_units_to_consume])

\* SystemLoanFeeReserve::repay_all that repays what the balance covers and
\* reports success whatever is left owed.
repay_all_lenient(fr) ==
    LET sum == SumOver(fr.execution_deferred, Reasons)
        c == consume(fr, sum, execution_price(fr))
    IN  IF c.err # FeeOk THEN c
        ELSE LET moved == [c.fr EXCEPT
                            !.execution = [r \in Reasons |-> @[r] + c.fr.execution_deferred[r]],
                            !.execution_deferred = [r \in Reasons |-> 0],
                            !.execution_deferred_total = 0]
                 paid == IF moved.remaining_xrd_balance < moved.xrd_owed
                         THEN [moved EXCEPT !.xrd_owed = @ - moved.remaining_xrd_balance,
                                            !.remaining_xrd_balance = 0]
                         ELSE [moved EXCEPT !.remaining_xrd_balance = @ - moved.xrd_owed,
                                            !.xrd_owed = 0]
             IN  IF paid.abort_when_loan_repaid THEN FeeResult("Abort", paid)
                 ELSE FeeResult(FeeOk, paid)

\* SystemLoanFeeReserve::repay_all that moves the deferred charges into the
\* execution costs without charging them.
repay_all_uncharged(fr) ==
    LET moved == [fr EXCEPT
                    !.execution = [r \in Reasons |-> @[r] + fr.execution_deferred[r]],
                    !.execution_deferred = [r \in Reasons |-> 0],
                    !.execution_deferred_total = 0]
    IN  IF moved.remaining_xrd_balance < moved.xrd_owed
        THEN FeeResult("LoanRepaymentFailed", moved)
        ELSE LET paid == [moved EXCEPT !.remaining_xrd_balance = @ - moved.xrd_owed,
                                       !.xrd_owed = 0]
             IN  IF paid.abort_when_loan_repaid THEN FeeResult("Abort", paid)
                 ELSE FeeResult(FeeOk, paid)

\* SystemLoanFeeReserve::repay_all
repay_all(fr) ==
    LET sum == SumOver(fr.execution_deferred, Reasons)
        c == consume(fr, sum, execution_price(fr))
    IN  IF c.err # FeeOk THEN c
        ELSE LET moved == [c.fr EXCEPT
                            !.execution = [r \in Reasons |-> @[r] + c.fr.execution_deferred[r]],
                            !.execution_deferred = [r \in Reasons |-> 0],
                            !.execution_deferred_total = 0]
             IN  IF moved.remaining_xrd_balance < moved.xrd_owed
                 THEN FeeResult("LoanRepaymentFailed", moved)
                 ELSE LET paid == [moved EXCEPT !.remaining_xrd_balance = @ - moved.xrd_owed,
                                                !.xrd_owed = 0]
                      IN  IF paid.abort_when_loan_repaid THEN FeeResult("Abort", paid)
                          ELSE FeeResult(FeeOk, paid)

\* SystemLoanFeeReserve::fully_repaid looking at the amount owed only.
fully_repaid_owed_only(fr) == fr.xrd_owed = 0

\* SystemLoanFeeReserve::fully_repaid
fully_repaid(fr) == fr.xrd_owed = 0 /\ fr.execution_deferred_total = 0

\* The tail of consume_royalty and consume_execution repaying only when
\* something of the loan is owed, whatever is deferred.
repay_if_xrd_owed(fr) ==
    IF fr.remaining_loan_balance = 0 /\ fr.xrd_owed # 0 THEN repay_all(fr)
    ELSE FeeResult(FeeOk, fr)

\* The tail of consume_royalty and consume_execution: repay as soon as the loan
\* is used up.
repay_if_loan_exhausted(fr) ==
    IF fr.remaining_loan_balance = 0 /\ ~fully_repaid(fr) THEN repay_all(fr)
    ELSE FeeResult(FeeOk, fr)

\* PreExecutionFeeReserve::consume_deferred
consume_deferred(fr, amount, multiplier, reason) ==
    IF amount = 0 THEN FeeResult(FeeOk, fr)
    ELSE LET units_consumed == amount * multiplier
         IN  FeeResult(FeeOk,
                [fr EXCEPT !.execution_deferred[reason] = @ + units_consumed,
                           !.execution_deferred_total = @ + units_consumed])

\* ExecutionFeeReserve::consume_royalty
consume_royalty(fr, receiver, amount) ==
    IF amount = 0 THEN FeeResult(FeeOk, fr)
    ELSE LET c == consume(fr, amount, execution_price(fr))
         IN  IF c.err # FeeOk THEN c
             ELSE repay_if_loan_exhausted([c.fr EXCEPT !.royalty[receiver] = @ + amount])

\* ExecutionFeeReserve::consume_execution
consume_execution(fr, cost_units_to_consume, reason) ==
    IF cost_units_to_consume = 0 THEN FeeResult(FeeOk, fr)
    ELSE LET c == consume(fr, cost_units_to_consume, execution_price(fr))
         IN  IF c.err # FeeOk THEN c
             ELSE repay_if_loan_exhausted(
                    [c.fr EXCEPT !.execution[reason] = @ + cost_units_to_consume])

\* ExecutionFeeReserve::consume_multiplied_execution
consume_multiplied_execution(fr, cost_units_per_multiple, multiplier, reason) ==
    IF multiplier = 0 THEN FeeResult(FeeOk, fr)
    ELSE consume_execution(fr, cost_units_per_multiple * multiplier, reason)

\* ExecutionFeeReserve::lock_fee that adds a contingent fee to the balance too.
lock_fee_counts_contingent(fr, vault_id, fee, contingent) ==
    IF fee.resource_address # "RADIX_TOKEN" THEN FeeResult("NotXrd", fr)
    ELSE FeeResult(FeeOk,
            [fr EXCEPT !.remaining_xrd_balance = @ + fee.amount,
                       !.payments = Append(@, [vault_id |-> vault_id, amount |-> fee.amount,
                                               contingent |-> contingent])])

\* ExecutionFeeReserve::lock_fee; fee is the Resource handed in: its resource
\* address and its amount.
lock_fee(fr, vault_id, fee, contingent) ==
    IF fee.resource_address # "RADIX_TOKEN" THEN FeeResult("NotXrd", fr)
    ELSE FeeResult(FeeOk,
            [fr EXCEPT !.remaining_xrd_balance = IF contingent THEN @ ELSE @ + fee.amount,
                       !.payments = Append(@, [vault_id |-> vault_id, amount |-> fee.amount,
                                               contingent |-> contingent])])

\* FinalizingFeeReserve::finalize
finalize(fr) ==
    [cost_unit_limit |-> fr.cost_unit_limit,
     cost_unit_price |-> fr.cost_unit_price,
     tip_percentage |-> fr.tip_percentage,
     total_cost_units_consumed |-> fr.total_cost_units_consumed,
     total_execution_cost_xrd |-> execution_price(fr) * SumOver(fr.execution, Reasons),
     total_royalty_cost_xrd |-> royalty_price(fr) * SumOver(fr.royalty, Receivers),
     bad_debt_xrd |-> fr.xrd_owed,
     vault_locks |-> fr.payments]

(***************************************************************************)
(* The transaction executor around the fee reserve. Its code is not among   *)
(* the sources; it is modelled after the design document (sections 3, 6, 7):*)
(* decode, charge the pre-execution costs as deferred costs, execute (lock  *)
(* fees, charge execution and royalties), repay the loan, finalize the fees *)
(* and emit the receipt.                                                    *)
(***************************************************************************)
Commits == {"CommitSuccess", "CommitFailure"}
NoReceipt == "None"
NoError == "None"

\* The transaction before it starts.
NewTx == [phase |-> "init", receipt |-> NoReceipt, error |-> NoError,
          state_updates |-> "none", fee_paid |-> 0]

\* The receipt of an execution that stopped with error err: Abort for the
\* configured abort, Commit(Failure) once the loan is repaid, Reject before.
receipt_of_error(fr, err) ==
    IF err = "Abort" THEN "Abort"
    ELSE IF fully_repaid(fr) THEN "CommitFailure"
    ELSE "Reject"

\* The ended transaction: a commit collects the fees of the fee summary and
\* applies all state updates (success) or the force-written ones (failure).
end_transaction(fr, receipt, err) ==
    [phase |-> "ended", receipt |-> receipt, error |-> err,
     state_updates |-> CASE receipt = "CommitSuccess" -> "all"
                         [] receipt = "CommitFailure" -> "force_write_only"
                         [] OTHER -> "none",
     fee_paid |-> IF receipt \in Commits
                  THEN finalize(fr).total_execution_cost_xrd + finalize(fr).total_royalty_cost_xrd
                  ELSE 0]

\* A step of the execution with outcome r: the transaction goes on after Ok and
\* ends with the receipt of the error otherwise.
after_fee_call(r) ==
    /\ fee_reserve' = r.fr
    /\ tx' = IF r.err = FeeOk THEN tx
             ELSE end_transaction(r.fr, receipt_of_error(r.fr, r.err), r.err)

\* The instruction stream does not decode: rejected before anything is charged.
tx_reject_undecodable ==
    /\ tx.phase = "init"
    /\ tx' = end_transaction(fee_reserve, "Reject", "InputDecodeError")
    /\ UNCHANGED fee_reserve
    /\ UNCHANGED <<trackVars, resVars, authVars, sysVars, nfVars>>

\* The pre-execution costs are charged as deferred costs and execution starts.
tx_start(amount) ==
    /\ tx.phase = "init"
    /\ fee_reserve' = consume_deferred(fee_reserve, amount, 1, "TxBaseCost").fr
    /\ tx' = [tx EXCEPT !.phase = "executing"]
    /\ UNCHANGED <<trackVars, resVars, authVars, sysVars, nfVars>>

\* A vault locks a fee.
tx_lock_fee(vault_id, fee, contingent) ==
    /\ tx.phase = "executing"
    /\ Len(fee_reserve.payments) < MaxPayments
    /\ after_fee_call(lock_fee(fee_reserve, vault_id, fee, contingent))
    /\ UNCHANGED <<trackVars, resVars, authVars, sysVars, nfVars>>

\* The kernel charges execution cost units.
tx_consume_execution(cost_units, reason) ==
    /\ tx.phase = "executing"
    /\ after_fee_call(consume_multiplied_execution(fee_reserve, cost_units, 1, reason))
    /\ UNCHANGED <<trackVars, resVars, authVars, sysVars, nfVars>>

\* The kernel charges a royalty.
tx_consume_royalty(receiver, cost_units) ==
    /\ tx.phase = "executing"
    /\ after_fee_call(consume_royalty(fee_reserve, receiver, cost_units))
    /\ UNCHANGED <<trackVars, resVars, authVars, sysVars, nfVars>>

\* The application or the kernel raises an error that is not a costing error.
tx_runtime_error ==
    /\ tx.phase = "executing"
    /\ tx' = end_transaction(fee_reserve, receipt_of_error(fee_reserve, "ApplicationError"),
                             "ApplicationError")
    /\ UNCHANGED fee_reserve
    /\ UNCHANGED <<trackVars, resVars, authVars, sysVars, nfVars>>

\* The manifest runs to its end: the loan is repaid in a last repay_all and the
\* transaction commits, is rejected (SuccessButFeeLoanNotRepaid) or aborts.
tx_finish ==
    /\ tx.phase = "executing"
    /\ LET r == repay_all(fee_reserve)
       IN  /\ fee_reserve' = r.fr
           /\ tx' = CASE r.err = FeeOk -> end_transaction(r.fr, "CommitSuccess", NoError)
                      [] r.err = "Abort" -> end_transaction(r.fr, "Abort", "Abort")
                      [] OTHER -> end_transaction(r.fr, "Reject", "SuccessButFeeLoanNotRepaid")
    /\ UNCHANGED <<trackVars, resVars, authVars, sysVars, nfVars>>

\* The transactions tried: price 2 with no tip, a tip of 25 percent (half a
\* unit, which the integer division drops) or of 50 percent, no loan or a loan
\* of MaxLoan cost units, with and without the configured abort.
FeeInit ==
    /\ fee_reserve \in {SystemLoanFeeReserve_new(2, tip, CostUnitLimit, loan, abort) :
                            tip \in {0, 25, 50}, loan \in {0, MaxLoan}, abort \in BOOLEAN}
    /\ tx = NewTx

\* The fee reserve of the specifications of the other subsystems.
FeeIdle ==
    /\ fee_reserve = SystemLoanFeeReserve_new(2, 0, CostUnitLimit, MaxLoan, FALSE)
    /\ tx = NewTx

\* Fees locked: nothing, too little for any charge, or enough for every charge.
FeeChoices ==
    {[resource_address |-> "RADIX_TOKEN", amount |-> 3],
     [resource_address |-> "RADIX_TOKEN", amount |-> 3 * CostUnitLimit],
     [resource_address |-> "OTHER_TOKEN", amount |-> 3]}

FeeNext ==
    \/ tx_reject_undecodable
    \/ \E amount \in 1..MaxUnits : tx_start(amount)
    \/ \E fee \in FeeChoices, contingent \in BOOLEAN : tx_lock_fee("vault", fee, contingent)
    \/ \E cost_units \in 0..MaxUnits, reason \in {"TxBaseCost", "RunNative"} : tx_consume_execution(cost_units, reason)
    \/ \E receiver \in Receivers, cost_units \in 0..MaxUnits : tx_consume_royalty(receiver, cost_units)
    \/ tx_runtime_error
    \/ tx_finish

(***************************************************************************)
(* Resource manager: src/radix-engine/src/model/substates/resource_manager.rs *)
(* A Decimal is its whole number of 10^-DecimalPlaces units (18 places in   *)
(* the code, DecimalPlaces here).                                           *)
(***************************************************************************)
\* Bounds of the resource model.
DecimalPlaces == 1
MaxMint == 2
MaxVault == 2
MaxResSteps == 5

RECURSIVE Pow10(_)
Pow10(n) == IF n = 0 THEN 1 ELSE 10 * Pow10(n - 1)

\* Decimal::one()
One == Pow10(DecimalPlaces)

\* dec!("1000000000000000000"), the largest amount of one mint, scaled to MaxMint.
MaxMintAmount == MaxMint * One

VaultIds == 1..MaxVault

\* MethodAuthorization, as converted from an AccessRule.
AllowAll == [kind |-> "AllowAll", badge |-> 0]
DenyAll == [kind |-> "DenyAll", badge |-> 0]
Unsupported == [kind |-> "Unsupported", badge |-> 0]
Require(badge) == [kind |-> "Require", badge |-> badge]

\* Mutability::LOCKED; Mutability::MUTABLE(rule) is the rule itself.
LOCKED == [kind |-> "LOCKED", badge |-> 0]

AuthKeys == {"Mint", "Burn", "Withdraw", "Deposit", "UpdateMetadata", "UpdateNonFungibleData"}

Public == "Public"

\* MethodAccessRule::new
MethodAccessRule_new(entry) ==
    [auth |-> entry[1],
     update_auth |-> IF entry[2] = LOCKED THEN DenyAll ELSE entry[2]]

\* The defaults of ResourceManagerSubstate::new for the keys auth leaves out.
DefaultAuthEntry(auth_entry_key) ==
    IF auth_entry_key \in {"Withdraw", "Deposit"} THEN <<AllowAll, LOCKED>> ELSE <<DenyAll, LOCKED>>

\* ResourceManagerSubstate::new; auth maps some of the AuthKeys to (rule, mutability).
ResourceManagerSubstate_new(resource_type, auth) ==
    [resource_type |-> resource_type,
     method_table |->
        [Mint |-> "Mint", UpdateMetadata |-> "UpdateMetadata", CreateBucket |-> Public,
         GetMetadata |-> Public, GetResourceType |-> Public, GetTotalSupply |-> Public,
         CreateVault |-> Public, Burn |-> "Burn", SetResourceAddress |-> Public,
         UpdateNonFungibleData |-> "UpdateNonFungibleData", NonFungibleExists |-> Public,
         GetNonFungible |-> Public],
     vault_method_table |->
        [LockFee |-> "Withdraw", Take |-> "Withdraw", Put |-> "Deposit", GetAmount |-> Public,
         GetResourceAddress |-> Public, GetNonFungibleIds |-> Public, CreateProof |-> Public,
         CreateProofByAmount |-> Public, CreateProofByIds |-> Public,
         TakeNonFungibles |-> "Withdraw"],
     authorization |->
        [k \in AuthKeys |-> MethodAccessRule_new(IF k \in DOMAIN auth THEN auth[k]
                                                 ELSE DefaultAuthEntry(k))],
     total_supply |-> 0]

\* ResourceManagerSubstate::check_amount
check_amount(rm, amount) ==
    LET divisibility == rm.resource_type.divisibility
    IN  IF amount < 0 \/ amount % Pow10(DecimalPlaces - divisibility) # 0
        THEN "InvalidAmount" ELSE "Ok"

\* ResourceManagerSubstate::burn adding the amount to the supply.
burn_adds(rm, amount) == [rm EXCEPT !.total_supply = @ + amount]

\* ResourceManagerSubstate::burn
burn(rm, amount) == [rm EXCEPT !.total_supply = @ - amount]

\* ResourceManagerSubstate::mint_fungible leaving the total supply as it was.
mint_fungible_unrecorded(rm, amount) ==
    IF rm.resource_type.kind = "Fungible"
    THEN IF check_amount(rm, amount) # "Ok"
         THEN [err |-> "InvalidAmount", rm |-> rm, resource |-> 0]
         ELSE IF amount > MaxMintAmount
         THEN [err |-> "MaxMintAmountExceeded", rm |-> rm, resource |-> 0]
         ELSE [err |-> "Ok", rm |-> rm, resource |-> amount]
    ELSE [err |-> "ResourceTypeDoesNotMatch", rm |-> rm, resource |-> 0]

\* ResourceManagerSubstate::mint_fungible: the error or Ok, the substate and the
\* amount of the Resource returned.
mint_fungible(rm, amount) ==
    IF rm.resource_type.kind = "Fungible"
    THEN IF check_amount(rm, amount) # "Ok"
         THEN [err |-> "InvalidAmount", rm |-> rm, resource |-> 0]
         ELSE IF amount > MaxMintAmount
         THEN [err |-> "MaxMintAmountExceeded", rm |-> rm, resource |-> 0]
         ELSE [err |-> "Ok", rm |-> [rm EXCEPT !.total_supply = @ + amount], resource |-> amount]
    ELSE [err |-> "ResourceTypeDoesNotMatch", rm |-> rm, resource |-> 0]

(***************************************************************************)
(* Vaults, buckets and the transactions that move the resource. Their code  *)
(* is not among the sources; they are modelled after section 4.7 of the     *)
(* design document: take checks 0 <= amount <= liquid, put adds the bucket, *)
(* a transaction must leave the worktop empty, and a failed transaction     *)
(* changes nothing.                                                         *)
(***************************************************************************)
ResCanCall == res_tx.state = "running" /\ res_tx.steps < MaxResSteps

ResStep == [res_tx EXCEPT !.steps = @ + 1]

\* The transaction fails: the state returns to the one it started from.
ResFail ==
    /\ resource_manager' = res_tx.start.resource_manager
    /\ vaults' = res_tx.start.vaults
    /\ minted' = res_tx.start.minted
    /\ burned' = res_tx.start.burned
    /\ worktop' = 0
    /\ res_tx' = [res_tx EXCEPT !.state = "failed", !.steps = @ + 1]

\* ResourceManager mint: the minted bucket goes to the worktop, with an event.
res_mint(amount) ==
    /\ ResCanCall
    /\ LET r == mint_fungible(resource_manager, amount)
       IN  IF r.err # "Ok" THEN ResFail
           ELSE /\ resource_manager' = r.rm
                /\ worktop' = worktop + r.resource
                /\ minted' = minted + amount
                /\ res_tx' = ResStep
                /\ UNCHANGED <<vaults, burned>>
    /\ UNCHANGED <<trackVars, feeVars, authVars, sysVars, nfVars>>

\* ResourceManager burn of a bucket taken from the worktop, with an event.
res_burn(amount) ==
    /\ ResCanCall
    /\ amount \in 1..worktop
    /\ resource_manager' = burn(resource_manager, amount)
    /\ worktop' = worktop - amount
    /\ burned' = burned + amount
    /\ res_tx' = ResStep
    /\ UNCHANGED <<vaults, minted>>
    /\ UNCHANGED <<trackVars, feeVars, authVars, sysVars, nfVars>>

\* Vault take: fails unless 0 <= amount <= liquid.
vault_take(vault_id, amount) ==
    /\ ResCanCall
    /\ IF amount < 0 \/ amount > vaults[vault_id] THEN ResFail
       ELSE /\ vaults' = [vaults EXCEPT ![vault_id] = @ - amount]
            /\ worktop' = worktop + amount
            /\ res_tx' = ResStep
            /\ UNCHANGED <<resource_manager, minted, burned>>
    /\ UNCHANGED <<trackVars, feeVars, authVars, sysVars, nfVars>>

\* Vault put of a bucket taken from the worktop.
vault_put(vault_id, amount) ==
    /\ ResCanCall
    /\ amount \in 1..worktop
    /\ vaults' = [vaults EXCEPT ![vault_id] = @ + amount]
    /\ worktop' = worktop - amount
    /\ res_tx' = ResStep
    /\ UNCHANGED <<resource_manager, minted, burned>>
    /\ UNCHANGED <<trackVars, feeVars, authVars, sysVars, nfVars>>

\* The manifest ends: it commits if the worktop is empty and fails otherwise.
res_commit ==
    /\ res_tx.state = "running"
    /\ IF worktop # 0 THEN ResFail
       ELSE /\ res_tx' = [res_tx EXCEPT !.state = "committed"]
            /\ UNCHANGED <<resource_manager, vaults, worktop, minted, burned>>
    /\ UNCHANGED <<trackVars, feeVars, authVars, sysVars, nfVars>>

\* The next transaction starts from the state the last one left.
res_begin ==
    /\ res_tx.state \in {"committed", "failed"}
    /\ res_tx.steps < MaxResSteps
    /\ res_tx' = [state |-> "running", steps |-> res_tx.steps,
                  start |-> [resource_manager |-> resource_manager, vaults |-> vaults,
                             minted |-> minted, burned |-> burned]]
    /\ UNCHANGED <<resource_manager, vaults, worktop, minted, burned>>
    /\ UNCHANGED <<trackVars, feeVars, authVars, sysVars, nfVars>>

\* A resource with everything allowed for everyone.
OpenAuth == [k \in {"Mint", "Burn"} |-> <<AllowAll, LOCKED>>]

FungibleType(divisibility) == [kind |-> "Fungible", divisibility |-> divisibility]

ResStart(rm) ==
    /\ resource_manager = rm
    /\ vaults = [v \in VaultIds |-> 0]
    /\ worktop = 0
    /\ minted = 0
    /\ burned = 0
    /\ res_tx = [state |-> "running", steps |-> 0,
                 start |-> [resource_manager |-> rm, vaults |-> [v \in VaultIds |-> 0],
                            minted |-> 0, burned |-> 0]]

\* A new fungible resource that is indivisible or fully divisible.
ResInit ==
    \E divisibility \in {0, DecimalPlaces} :
        ResStart(ResourceManagerSubstate_new(FungibleType(divisibility), OpenAuth))

ResIdle == ResStart(ResourceManagerSubstate_new(FungibleType(0), OpenAuth))

\* Amounts: negative, half a token, one token, two tokens, more than one mint allows.
Amounts == {0 - One, One \div 2, One, 2 * One, MaxMintAmount + One}

ResNext ==
    \/ \E amount \in Amounts : res_mint(amount)
    \/ \E amount \in Amounts : res_burn(amount)
    \/ \E v \in VaultIds, amount \in Amounts : vault_take(v, amount)
    \/ \E v \in VaultIds, amount \in Amounts : vault_put(v, amount)
    \/ res_commit
    \/ res_begin

(***************************************************************************)
(* Authorization of resource manager and vault methods:                     *)
(* src/radix-engine/src/model/substates/resource_manager.rs and             *)
(* src/radix-engine/src/engine/modules/auth_module.rs                       *)
(***************************************************************************)
\* Bounds of the auth model.
MaxBadge == 2
MaxFrames == 2

Badges == 1..MaxBadge

\* MethodAccessRule::get_method_auth
get_method_auth(entry) == entry.auth

\* MethodAccessRule::get_update_auth
get_update_auth(entry) == entry.update_auth

\* MethodAccessRule::update
MethodAccessRule_update(entry, method_auth) == [entry EXCEPT !.auth = method_auth]

\* MethodAccessRule::lock
MethodAccessRule_lock(entry) == [entry EXCEPT !.update_auth = DenyAll]

\* ResourceManagerSubstate::get_auth treating every method of the table as Public.
get_auth_all_public(rm, method, args) ==
    CASE method \in {"UpdateAuth", "LockAuth"} ->
            IF args \in DOMAIN rm.authorization
            THEN get_update_auth(rm.authorization[args]) ELSE Unsupported
      [] method = "Burn" -> get_method_auth(rm.authorization["Burn"])
      [] OTHER -> IF method \in DOMAIN rm.method_table THEN AllowAll ELSE Unsupported

\* ResourceManagerSubstate::get_auth; args is the auth key named by the input of
\* UpdateAuth and LockAuth.
get_auth(rm, method, args) ==
    CASE method \in {"UpdateAuth", "LockAuth"} ->
            IF args \in DOMAIN rm.authorization
            THEN get_update_auth(rm.authorization[args]) ELSE Unsupported
      [] method = "Burn" -> get_method_auth(rm.authorization["Burn"])
      [] OTHER ->
            IF method \notin DOMAIN rm.method_table THEN Unsupported
            ELSE IF rm.method_table[method] = Public THEN AllowAll
            ELSE get_method_auth(rm.authorization[rm.method_table[method]])

\* ResourceManagerSubstate::get_vault_auth
get_vault_auth(rm, vault_fn) ==
    IF vault_fn \notin DOMAIN rm.vault_method_table THEN Unsupported
    ELSE IF rm.vault_method_table[vault_fn] = Public THEN AllowAll
    ELSE get_method_auth(rm.authorization[rm.vault_method_table[vault_fn]])

\* Whether a set of proofs satisfies a rule (design document, section 4.4).
Satisfies(proofs, rule) ==
    CASE rule.kind = "AllowAll" -> TRUE
      [] rule.kind = "Require" -> rule.badge \in proofs
      [] OTHER -> FALSE

\* AuthZone::check_auth: every authorization of the method must be satisfied by
\* the proofs of the caller's frame. Its code is not among the sources.
check_auth(zone, method_auths) ==
    \A i \in 1..Len(method_auths) : Satisfies(zone[Len(zone)], method_auths[i])

\* Actors: a method of the auth zone, a function, a method of the resource
\* manager or a method of a vault. args is the auth key the input of UpdateAuth
\* and LockAuth names; rule is the rule UpdateAuth installs and the proof Push adds.
NoArgs == "None"

MainFunction == [kind |-> "Function", method |-> "main", args |-> NoArgs, rule |-> AllowAll]

\* The match of on_before_frame_start that collects the authorizations of the
\* actor under a read lock that is dropped again.
method_auths_of(actor) ==
    CASE actor.kind = "ResourceManager" ->
            <<get_auth(resource_manager, actor.method, actor.args)>>
      [] actor.kind = "Vault" -> <<get_vault_auth(resource_manager, actor.method)>>
      [] OTHER -> <<>>

AuthZoneLock == [node |-> "AuthZoneStack", flags |-> "MUTABLE"]

AuthCall(op, actor, result, frame_started) ==
    [op |-> op, actor |-> actor, result |-> result, frame_started |-> frame_started]

\* AuthModule::on_before_frame_start. The read locks on the resource manager and
\* the vault are dropped before the auth zone is locked; the `?` after
\* check_auth returns before new_frame and before drop_lock.
on_before_frame_start(actor) ==
    /\ auth_last.result = "Ok"
    /\ Len(call_stack) < MaxFrames
    /\ IF actor.kind = "AuthZone"
       THEN /\ auth_last' = AuthCall("on_before_frame_start", actor, "Ok", FALSE)
            /\ call_stack' = Append(call_stack, actor)
            /\ UNCHANGED <<auth_zone, auth_locks>>
       ELSE IF check_auth(auth_zone, method_auths_of(actor))
       THEN /\ auth_zone' = Append(auth_zone, {})
            /\ call_stack' = Append(call_stack, actor)
            /\ auth_last' = AuthCall("on_before_frame_start", actor, "Ok", TRUE)
            /\ UNCHANGED auth_locks
       ELSE /\ auth_locks' = auth_locks \cup {AuthZoneLock}
            /\ auth_last' = AuthCall("on_before_frame_start", actor, "Unauthorized", FALSE)
            /\ UNCHANGED <<auth_zone, call_stack>>
    /\ UNCHANGED <<resource_manager, h_rule>>
    /\ UNCHANGED <<trackVars, feeVars, holdingVars, sysVars, nfVars>>

\* What the method of the frame that ends has done to the resource manager:
\* MethodAccessRule::main for UpdateAuth and LockAuth, a proof pushed for
\* the auth zone's Push.
rule_after(rule_table, actor) ==
    CASE actor.kind = "ResourceManager" /\ actor.method = "UpdateAuth" ->
            [rule_table EXCEPT ![actor.args] = MethodAccessRule_update(@, actor.rule)]
      [] actor.kind = "ResourceManager" /\ actor.method = "LockAuth" ->
            [rule_table EXCEPT ![actor.args] = MethodAccessRule_lock(@)]
      [] OTHER -> rule_table

\* AuthModule::on_frame_end, after the method of the frame has run.
on_frame_end ==
    /\ auth_last.result = "Ok"
    /\ call_stack # <<>>
    /\ LET actor == call_stack[Len(call_stack)]
       IN  /\ call_stack' = SubSeq(call_stack, 1, Len(call_stack) - 1)
           /\ resource_manager' =
                [resource_manager EXCEPT !.authorization = rule_after(@, actor)]
           /\ h_rule' = rule_after(h_rule, actor)
           /\ auth_zone' =
                IF actor.kind = "AuthZone"
                THEN [auth_zone EXCEPT ![Len(auth_zone)] = @ \cup {actor.rule.badge}]
                ELSE SubSeq(auth_zone, 1, Len(auth_zone) - 1)
           /\ auth_last' = AuthCall("on_frame_end", actor, "Ok", FALSE)
    /\ UNCHANGED auth_locks
    /\ UNCHANGED <<trackVars, feeVars, holdingVars, sysVars, nfVars>>

\* The error of a refused call unwinds the transaction: its frames are gone.
auth_unwind ==
    /\ auth_last.result = "Unauthorized"
    /\ auth_last' = AuthCall("unwind", auth_last.actor, "Failed", FALSE)
    /\ UNCHANGED <<auth_zone, call_stack, auth_locks, h_rule, resource_manager>>
    /\ UNCHANGED <<trackVars, feeVars, holdingVars, sysVars, nfVars>>

\* The resources tried: minting asks for badge 1 and can be changed by the
\* holder of badge 2; burning is left at its default or open to everyone.
AuthChoices ==
    {[k \in {"Mint"} |-> <<Require(1), Require(MaxBadge)>>],
     [k \in {"Mint", "Burn"} |-> IF k = "Mint" THEN <<Require(1), LOCKED>>
                                  ELSE <<AllowAll, Require(1)>>]}

AuthStart ==
    /\ auth_zone = <<{}>>
    /\ call_stack = <<>>
    /\ auth_locks = {}
    /\ auth_last = AuthCall("new", MainFunction, "Ok", FALSE)
    /\ h_rule = resource_manager.authorization

AuthIdle == AuthStart

\* Actors tried by the calls.
ActorChoices ==
    {[kind |-> "AuthZone", method |-> "Push", args |-> NoArgs, rule |-> Require(b)] : b \in Badges}
    \cup {MainFunction}
    \cup {[kind |-> "ResourceManager", method |-> m, args |-> NoArgs, rule |-> AllowAll] :
            m \in {"Mint", "Burn", "GetTotalSupply"}}
    \cup {[kind |-> "ResourceManager", method |-> "UpdateAuth", args |-> k, rule |-> r] :
            k \in {"Mint", "Burn"}, r \in {AllowAll, Require(MaxBadge)}}
    \cup {[kind |-> "ResourceManager", method |-> "LockAuth", args |-> "Mint", rule |-> AllowAll]}
    \cup {[kind |-> "Vault", method |-> m, args |-> NoArgs, rule |-> AllowAll] :
            m \in {"Take", "GetAmount"}}

AuthNext ==
    \/ \E actor \in ActorChoices : on_before_frame_start(actor)
    \/ on_frame_end
    \/ auth_unwind

(***************************************************************************)
(* System service: src/radix-engine/src/system/system.rs                    *)
(* The kernel under it (node ids, heap, locks), the package schemas and the *)
(* event store are not among the sources; their calls are modelled after    *)
(* the design document (sections 4.2, 4.3): allocate hands out the next id, *)
(* create puts a node on the heap, drop takes it off and returns its        *)
(* substates, add_event appends to the event store.                         *)
(***************************************************************************)
\* Bounds of the system model.
MaxSysNodes == 6
MaxEvents == 2

SysNodeIds == 1..MaxSysNodes

\* SysModuleId without TypeInfo, which a node keeps as its type_info.
SysModuleIds == {"Object", "Metadata", "Royalty", "AccessRules", "Virtualized"}

ObjectModuleIds == {"SELF", "Metadata", "Royalty", "AccessRules"}

\* SubstateKey::Tuple (fields 0 and 1), ::Map and ::Sorted (one key each)
SysKeys == {<<"Tuple", 0>>, <<"Tuple", 1>>, <<"Map", 1>>, <<"Sorted", 1>>}

\* A payload: the type its bytes decode to ("Garbage" for bytes that are no
\* value at all), its value, and whether it holds an Own of a node.
Payload(ty, val, own) == [ty |-> ty, val |-> val, own |-> own]

NoSubstate == Payload("None", 0, FALSE)

\* Option::<ScryptoValue>::None, the default of a key-value store entry
EmptyEntry == Payload("Option::None", 0, FALSE)

Blueprint_new(package_address, blueprint_name) == [package_address |-> package_address, blueprint_name |-> blueprint_name]

\* The blueprints of the module packages.
MetadataBlueprint == Blueprint_new("METADATA_MODULE_PACKAGE", "Metadata")
RoyaltyBlueprint == Blueprint_new("ROYALTY_MODULE_PACKAGE", "ComponentRoyalty")
AccessRulesBlueprint == Blueprint_new("ACCESS_RULES_MODULE_PACKAGE", "AccessRules")
FungibleVaultBlueprint == Blueprint_new("RESOURCE_PACKAGE", "FungibleVault")
AppBlueprint == Blueprint_new("APP_PACKAGE", "App")

\* The native blueprints with an entity type of their own, and a blueprint of
\* an application package.
ObjectBlueprints ==
    {Blueprint_new("PACKAGE_PACKAGE", "Package"),
     Blueprint_new("RESOURCE_PACKAGE", "FungibleResourceManager"),
     Blueprint_new("RESOURCE_PACKAGE", "NonFungibleResourceManager"),
     Blueprint_new("EPOCH_MANAGER_PACKAGE", "EpochManager"),
     Blueprint_new("EPOCH_MANAGER_PACKAGE", "Validator"),
     Blueprint_new("CLOCK_PACKAGE", "Clock"),
     Blueprint_new("ACCESS_CONTROLLER_PACKAGE", "AccessController"),
     Blueprint_new("ACCOUNT_PACKAGE", "Account"),
     Blueprint_new("IDENTITY_PACKAGE", "Identity"),
     FungibleVaultBlueprint,
     Blueprint_new("RESOURCE_PACKAGE", "NonFungibleVault"),
     AppBlueprint}

ModuleBlueprints == {MetadataBlueprint, RoyaltyBlueprint, AccessRulesBlueprint}

NoBlueprint == Blueprint_new("", "")
NoSchema == [substates |-> <<>>, event_schema |-> {}, outer_blueprint |-> "", found |-> FALSE]

\* PackageInfoSubstate.schema.blueprints.get(blueprint_name) of the blueprint's
\* package: the types of the fields, the registered events (each with a U8
\* payload) and the outer blueprint. Vaults are inner objects of their
\* resource manager.
BlueprintSchema(blueprint) ==
    IF blueprint \notin ObjectBlueprints \cup ModuleBlueprints THEN NoSchema
    ELSE [substates |-> CASE blueprint = MetadataBlueprint -> <<>>
                          [] blueprint = AppBlueprint -> <<"U8", "String">>
                          [] blueprint = AccessRulesBlueprint -> <<"String">>
                          [] OTHER -> <<"U8">>,
          event_schema |-> IF blueprint = RoyaltyBlueprint THEN {"RoyaltyRegistered"}
                           ELSE {"Registered"},
          outer_blueprint |-> CASE blueprint.blueprint_name = "FungibleVault" -> "FungibleResourceManager"
                                [] blueprint.blueprint_name = "NonFungibleVault" -> "NonFungibleResourceManager"
                                [] OTHER -> "",
          found |-> TRUE]

\* validate_payload_against_schema: the payload decodes to the type of the
\* schema entry.
validate_payload_against_schema(payload, type) == payload.ty = type

\* TypeInfoSubstate
NoTypeInfo == [kind |-> "None", blueprint |-> NoBlueprint, global |-> FALSE, outer_object |-> 0, value |-> "", can_own |-> FALSE]
ObjectInfo(blueprint, global, outer_object) == [kind |-> "Object", blueprint |-> blueprint, global |-> global, outer_object |-> outer_object, value |-> "", can_own |-> FALSE]
KeyValueStoreInfo(value, can_own) == [kind |-> "KeyValueStore", blueprint |-> NoBlueprint, global |-> FALSE, outer_object |-> 0, value |-> value, can_own |-> can_own]
IndexInfo(kind) == [kind |-> kind, blueprint |-> NoBlueprint, global |-> FALSE, outer_object |-> 0, value |-> "", can_own |-> FALSE]

NoSubstates == [k \in SysKeys |-> NoSubstate]

\* A node of the heap: its entity type, its TypeInfo and its other modules.
SysNode(entity_type, type_info, present, substates) == [entity_type |-> entity_type, type_info |-> type_info, present |-> present, substates |-> substates]

NoSysNode == SysNode("None", NoTypeInfo, {}, [m \in SysModuleIds |-> NoSubstates])

\* The current actor: a function of a blueprint or a method of a node's module.
NoContext == [instance |-> 0, instance_blueprint |-> ""]
FunctionActor(blueprint) == [kind |-> "Function", blueprint |-> blueprint, node_id |-> 0, module_id |-> "SELF", instance_context |-> NoContext, outer_object |-> 0]
MethodActor(node_id, module_id, blueprint, instance_context, outer_object) == [kind |-> "Method", blueprint |-> blueprint, node_id |-> node_id, module_id |-> module_id, instance_context |-> instance_context, outer_object |-> outer_object]

\* The outcome of a call on the heap: the error (or Ok), the value returned
\* and the heap, allocator and event store as the call leaves them.
SysResult(err, ret, nodes, next_id, replacements) == [err |-> err, ret |-> ret, nodes |-> nodes, next_id |-> next_id, replacements |-> replacements]

\* The entity type new_object_internal chooses.
InternalEntityType(package_address, blueprint_ident) ==
    CASE package_address = "RESOURCE_PACKAGE" /\ blueprint_ident = "FungibleVault" -> "InternalFungibleVault"
      [] package_address = "RESOURCE_PACKAGE" /\ blueprint_ident = "NonFungibleVault" -> "InternalNonFungibleVault"
      [] package_address = "ACCOUNT_PACKAGE" /\ blueprint_ident = "Account" -> "InternalAccount"
      [] OTHER -> "InternalGenericComponent"

\* SystemService::verify_blueprint_fields: the error, or Ok.
verify_blueprint_fields(blueprint, fields) ==
    LET schema == BlueprintSchema(blueprint)
    IN  IF ~schema.found THEN "BlueprintNotFound"
        ELSE IF Len(schema.substates) # Len(fields) THEN "WrongNumberOfSubstates"
        ELSE IF \E i \in 1..Len(fields) :
                    ~validate_payload_against_schema(fields[i], schema.substates[i])
        THEN "CreateObjectError::InvalidSubstateWrite"
        ELSE "Ok"

\* SystemService::new_object_internal
new_object_internal(nodes, next_id, blueprint_ident, fields, package_address, instance_context) ==
    LET blueprint == Blueprint_new(package_address, blueprint_ident)
        verified == verify_blueprint_fields(blueprint, fields)
        parent == BlueprintSchema(blueprint).outer_blueprint
        node_init == [k \in SysKeys |->
                        IF k[1] = "Tuple" /\ k[2] < Len(fields) THEN fields[k[2] + 1]
                        ELSE NoSubstate]
        self_module_id == IF blueprint = MetadataBlueprint THEN "Virtualized" ELSE "Object"
        node == SysNode(InternalEntityType(package_address, blueprint_ident),
                        ObjectInfo(blueprint, FALSE,
                                   IF parent = "" THEN 0 ELSE instance_context.instance),
                        {self_module_id},
                        [m \in SysModuleIds |-> IF m = self_module_id THEN node_init
                                                ELSE NoSubstates])
    IN  IF verified # "Ok" THEN SysResult(verified, 0, nodes, next_id, sys_replacements)
        ELSE IF parent # "" /\ instance_context.instance_blueprint # parent
        THEN SysResult("InvalidChildObjectCreation", 0, nodes, next_id, sys_replacements)
        ELSE SysResult("Ok", next_id, [nodes EXCEPT ![next_id] = node], next_id + 1,
                       sys_replacements)

\* The entity type globalize chooses.
GlobalEntityType(blueprint) ==
    LET is(package_address, blueprint_name) ==
            blueprint = Blueprint_new(package_address, blueprint_name)
    IN  CASE is("ACCOUNT_PACKAGE", "Package") -> "GlobalPackage"
          [] is("RESOURCE_PACKAGE", "FungibleResourceManager") -> "GlobalFungibleResource"
          [] is("RESOURCE_PACKAGE", "NonFungibleResourceManager") -> "GlobalNonFungibleResource"
          [] is("EPOCH_MANAGER_PACKAGE", "EpochManager") -> "GlobalEpochManager"
          [] is("EPOCH_MANAGER_PACKAGE", "Validator") -> "GlobalValidator"
          [] is("CLOCK_PACKAGE", "Clock") -> "GlobalClock"
          [] is("ACCESS_CONTROLLER_PACKAGE", "AccessController") -> "GlobalAccessController"
          [] is("ACCOUNT_PACKAGE", "Account") -> "GlobalAccount"
          [] is("IDENTITY_PACKAGE", "Identity") -> "GlobalIdentity"
          [] OTHER -> "GlobalGenericComponent"

\* SystemService::get_object_info: the error, or Ok.
get_object_info(nodes, node_id) ==
    CASE nodes[node_id].type_info.kind = "None" -> "KernelError"
      [] nodes[node_id].type_info.kind = "Object" -> "Ok"
      [] OTHER -> "NotAnObject"

\* The blueprint globalize_with_address expects of a module's node, and the
\* module of that node whose substates it moves.
ExpectedModule(module_id) ==
    CASE module_id = "AccessRules" -> [blueprint |-> AccessRulesBlueprint, from |-> "Object"]
      [] module_id = "Metadata" -> [blueprint |-> MetadataBlueprint, from |-> "Virtualized"]
      [] module_id = "Royalty" -> [blueprint |-> RoyaltyBlueprint, from |-> "Object"]

\* attach_module without the comparison of the node's blueprint with the
\* expected one.
attach_module_any_blueprint(st, modules, module_id, address) ==
    LET node_id == modules[module_id]
        info == get_object_info(st.nodes, node_id)
        expected == ExpectedModule(module_id)
        node == st.nodes[node_id]
    IN  IF st.err # "Ok" THEN st
        ELSE IF info # "Ok" THEN [st EXCEPT !.err = info]
        ELSE IF expected.from \notin node.present
        THEN [st EXCEPT !.err = "panic",
                        !.replacements[node_id] = [node_id |-> address, module_id |-> module_id],
                        !.nodes[node_id] = NoSysNode]
        ELSE [st EXCEPT !.replacements[node_id] = [node_id |-> address, module_id |-> module_id],
                        !.nodes[node_id] = NoSysNode,
                        !.node_substates.present = @ \cup {module_id},
                        !.node_substates.substates[module_id] = node.substates[expected.from]]

\* attach_module without kernel_drop_node: the module's node stays on the heap.
attach_module_keeps_node(st, modules, module_id, address) ==
    LET node_id == modules[module_id]
        info == get_object_info(st.nodes, node_id)
        expected == ExpectedModule(module_id)
        node == st.nodes[node_id]
    IN  IF st.err # "Ok" THEN st
        ELSE IF info # "Ok" THEN [st EXCEPT !.err = info]
        ELSE IF node.type_info.blueprint # expected.blueprint
        THEN [st EXCEPT !.err = "InvalidModuleType"]
        ELSE IF expected.from \notin node.present
        THEN [st EXCEPT !.err = "panic",
                        !.replacements[node_id] = [node_id |-> address, module_id |-> module_id]]
        ELSE [st EXCEPT !.replacements[node_id] = [node_id |-> address, module_id |-> module_id],
                        !.node_substates.present = @ \cup {module_id},
                        !.node_substates.substates[module_id] = node.substates[expected.from]]

\* One round of the loop of globalize_with_address over the modules: st holds
\* the error so far, the heap, the replacements and node_substates.
attach_module(st, modules, module_id, address) ==
    LET node_id == modules[module_id]
        info == get_object_info(st.nodes, node_id)
        expected == ExpectedModule(module_id)
        node == st.nodes[node_id]
    IN  IF st.err # "Ok" THEN st
        ELSE IF info # "Ok" THEN [st EXCEPT !.err = info]
        ELSE IF node.type_info.blueprint # expected.blueprint
        THEN [st EXCEPT !.err = "InvalidModuleType"]
        ELSE IF expected.from \notin node.present
        THEN [st EXCEPT !.err = "panic",
                        !.replacements[node_id] = [node_id |-> address, module_id |-> module_id],
                        !.nodes[node_id] = NoSysNode]
        ELSE [st EXCEPT !.replacements[node_id] = [node_id |-> address, module_id |-> module_id],
                        !.nodes[node_id] = NoSysNode,
                        !.node_substates.present = @ \cup {module_id},
                        !.node_substates.substates[module_id] = node.substates[expected.from]]

\* SystemService::globalize_with_address, the address being of entity_type
globalize_with_address(nodes, next_id, modules, address, entity_type) ==
    IF DOMAIN modules # ObjectModuleIds
    THEN SysResult("InvalidModuleSet", 0, nodes, next_id, sys_replacements)
    ELSE LET node_id == modules["SELF"]
             self == nodes[node_id]
             replaced == [sys_replacements EXCEPT
                            ![node_id] = [node_id |-> address, module_id |-> "SELF"]]
             dropped == [nodes EXCEPT ![node_id] = NoSysNode]
             st0 == [err |-> "Ok", nodes |-> dropped, replacements |-> replaced,
                     node_substates |->
                        SysNode(entity_type, [self.type_info EXCEPT !.global = TRUE],
                                self.present, self.substates)]
             st1 == attach_module(st0, modules, "Metadata", address)
             st2 == attach_module(st1, modules, "Royalty", address)
             st3 == attach_module(st2, modules, "AccessRules", address)
         IN  IF self.type_info.kind = "None"
             THEN SysResult("KernelError", 0, nodes, next_id, replaced)
             ELSE IF self.type_info.kind # "Object" \/ self.type_info.global
             THEN SysResult("CannotGlobalize", 0, dropped, next_id, replaced)
             ELSE IF st3.err # "Ok"
             THEN SysResult(st3.err, 0, st3.nodes, next_id, st3.replacements)
             ELSE SysResult("Ok", address,
                            [st3.nodes EXCEPT ![address] = st3.node_substates],
                            next_id, st3.replacements)

\* SystemService::globalize
globalize(nodes, next_id, modules) ==
    IF "SELF" \notin DOMAIN modules
    THEN SysResult("MissingModule", 0, nodes, next_id, sys_replacements)
    ELSE LET type_info == nodes[modules["SELF"]].type_info
         IN  IF type_info.kind = "None"
             THEN SysResult("KernelError", 0, nodes, next_id, sys_replacements)
             ELSE IF type_info.kind # "Object" \/ type_info.global
             THEN SysResult("CannotGlobalize", 0, nodes, next_id, sys_replacements)
             ELSE globalize_with_address(nodes, next_id + 1, modules, next_id,
                                         GlobalEntityType(type_info.blueprint))

\* The global address of a resource manager of the ledger, the outer object of
\* the vaults.
OuterObject == MaxSysNodes + 1

NoReplacement == [node_id |-> 0, module_id |-> ""]
NoSysCall == [op |-> "none", result |-> "Ok", ret |-> 0]

\* An error ends the transaction: calls are made while none has failed.
SysRunning == sys_last.result = "Ok" /\ sys_last.op # "finish"

\* The heap before the first call: a key-value store of U8 values that must
\* not own nodes.
SysStart(input) ==
    /\ sys_nodes = [n \in SysNodeIds |->
                        IF n = 1
                        THEN SysNode("InternalKeyValueStore", KeyValueStoreInfo("U8", FALSE),
                                     {"Virtualized"}, [m \in SysModuleIds |-> NoSubstates])
                        ELSE NoSysNode]
    /\ sys_next_id = 2
    /\ sys_locks = <<>>
    /\ sys_events = <<>>
    /\ sys_replacements = [n \in SysNodeIds |-> NoReplacement]
    /\ sys_receipt = <<>>
    /\ sys_input = input
    /\ sys_last = NoSysCall

\* The system service of the specifications of the other subsystems.
SysIdle == SysStart(AppBlueprint)

\* The actors of a transaction that works with blueprint input: functions of
\* the blueprint and of the module blueprints and, for an inner blueprint, a
\* method of its outer object.
ObjActors(input) ==
    {FunctionActor(b) : b \in {input} \cup ModuleBlueprints}
        \cup (IF BlueprintSchema(input).outer_blueprint = "" THEN {}
              ELSE {MethodActor(OuterObject, "SELF",
                                Blueprint_new(input.package_address,
                                              BlueprintSchema(input).outer_blueprint),
                                [instance |-> OuterObject,
                                 instance_blueprint |-> BlueprintSchema(input).outer_blueprint],
                                0)})

\* The blueprints the transaction instantiates: its own, and each module
\* blueprint once.
BlueprintIdents ==
    {sys_input.blueprint_name}
        \cup {b.blueprint_name : b \in {m \in ModuleBlueprints :
                    \A n \in SysNodeIds : sys_nodes[n].type_info.blueprint # m}}

FieldChoices ==
    {<<>>, <<Payload("U8", 1, FALSE)>>, <<Payload("String", 1, FALSE)>>,
     <<Payload("U8", 1, FALSE), Payload("String", 1, FALSE)>>}

\* The module maps handed to globalize: the four object module ids with
\* different nodes of those the kernel has allocated, in any roles, and every
\* incomplete set of module ids.
ModuleMaps ==
    {m \in [ObjectModuleIds -> 1..(sys_next_id - 1)] :
        \A a, b \in ObjectModuleIds : a # b => m[a] # m[b]}
        \cup UNION {[S -> {n}] : S \in (SUBSET ObjectModuleIds) \ {ObjectModuleIds},
                                 n \in {1, sys_next_id - 1}}

\* ClientObjectApi::new_object
sys_new_object(actor, blueprint_ident, fields) ==
    /\ SysRunning
    /\ LET r == new_object_internal(sys_nodes, sys_next_id, blueprint_ident, fields,
                                    actor.blueprint.package_address, actor.instance_context)
       IN  /\ r.next_id <= MaxSysNodes + 1
           /\ sys_nodes' = r.nodes
           /\ sys_next_id' = r.next_id
           /\ sys_last' = [op |-> "new_object", result |-> r.err, ret |-> r.ret]
    /\ UNCHANGED <<sys_locks, sys_events, sys_replacements, sys_receipt, sys_input>>
    /\ UNCHANGED <<trackVars, feeVars, resVars, authVars, nfVars>>

\* ClientObjectApi::globalize
sys_globalize(modules) ==
    /\ SysRunning
    /\ LET r == globalize(sys_nodes, sys_next_id, modules)
       IN  /\ r.next_id <= MaxSysNodes + 1
           /\ sys_nodes' = r.nodes
           /\ sys_next_id' = r.next_id
           /\ sys_replacements' = r.replacements
           /\ sys_last' = [op |-> "globalize", result |-> r.err, ret |-> r.ret]
    /\ UNCHANGED <<sys_locks, sys_events, sys_receipt, sys_input>>
    /\ UNCHANGED <<trackVars, feeVars, resVars, authVars, nfVars>>

ObjInit == \E input \in ObjectBlueprints : SysStart(input)

ObjNext ==
    \/ \E actor \in ObjActors(sys_input), blueprint_ident \in BlueprintIdents, fields \in FieldChoices : sys_new_object(actor, blueprint_ident, fields)
    \/ \E modules \in ModuleMaps : sys_globalize(modules)

(***************************************************************************)
(* Substate lock_table and writes through the system service. The kernel's lock  *)
(* table is modelled after the design document (sections 2, 4.1 and 4.2):   *)
(* a lock needs a visible node and a substate (or a default for it), any    *)
(* number of readers or one writer hold a key, a write needs a mutable lock.*)
(***************************************************************************)
\* Bound: the locks a transaction acquires.
MaxHandles == 1

\* The entry of a handle whose lock has been dropped.
NoLockInfo == [node_id |-> 0, module_id |-> "", substate_key |-> <<"", 0>>, flags |-> NoFlags, open |-> FALSE]

\* LockInfo of a handle
LockInfo(node_id, module_id, substate_key, flags) == [node_id |-> node_id, module_id |-> module_id, substate_key |-> substate_key, flags |-> flags, open |-> TRUE]

\* The outcome of a call on the lock table: the error (or Ok), the handle
\* returned, and the heap and the lock table as the call leaves them.
LockResult(err, handle, nodes, lock_table) == [err |-> err, handle |-> handle, nodes |-> nodes, lock_table |-> lock_table]

\* kernel_lock_substate and kernel_lock_substate_with_default (default is
\* NoSubstate when none is given)
kernel_lock_substate(nodes, lock_table, node_id, module_id, substate_key, flags, default) ==
    LET node == nodes[node_id]
        held == {i \in 1..Len(lock_table) :
                    /\ lock_table[i].open
                    /\ lock_table[i].node_id = node_id
                    /\ lock_table[i].module_id = module_id
                    /\ lock_table[i].substate_key = substate_key}
    IN  IF node.type_info.kind = "None" \/ module_id \notin node.present
        THEN LockResult("KernelError", 0, nodes, lock_table)
        ELSE IF node.substates[module_id][substate_key] = NoSubstate /\ default = NoSubstate
        THEN LockResult("NotFound", 0, nodes, lock_table)
        ELSE IF held # {} /\ (flags.mutable \/ \E i \in held : lock_table[i].flags.mutable)
        THEN LockResult("SubstateLocked", 0, nodes, lock_table)
        ELSE LockResult("Ok", Len(lock_table) + 1,
                        IF node.substates[module_id][substate_key] = NoSubstate
                        THEN [nodes EXCEPT ![node_id].substates[module_id][substate_key] = default]
                        ELSE nodes,
                        Append(lock_table, LockInfo(node_id, module_id, substate_key, flags)))

\* ClientActorApi::lock_field
lock_field(nodes, lock_table, actor, field, flags) ==
    IF actor.kind = "Function" THEN LockResult("NotAMethod", 0, nodes, lock_table)
    ELSE IF (flags.unmodified_base \/ flags.force_write) /\ actor.blueprint # FungibleVaultBlueprint
    THEN LockResult("InvalidLockFlags", 0, nodes, lock_table)
    ELSE IF actor.module_id = "Metadata"
              \/ (actor.module_id = "SELF" /\ actor.blueprint = MetadataBlueprint)
    THEN LockResult("NotATuple", 0, nodes, lock_table)
    ELSE kernel_lock_substate(nodes, lock_table, actor.node_id,
                              IF actor.module_id = "SELF" THEN "Object" ELSE actor.module_id,
                              <<"Tuple", field>>, flags, NoSubstate)

\* ClientActorApi::lock_parent_field, with get_info
lock_parent_field(nodes, lock_table, actor, field, flags) ==
    IF actor.kind = "Function" THEN LockResult("NotAMethod", 0, nodes, lock_table)
    ELSE IF actor.outer_object = 0 THEN LockResult("NoParent", 0, nodes, lock_table)
    ELSE kernel_lock_substate(nodes, lock_table, actor.outer_object, "Object",
                              <<"Tuple", field>>, flags, NoSubstate)

\* The module of a node that lock_key_value_store_entry lock_table, or the error.
key_value_module(type_info, actor) ==
    CASE type_info.kind \in {"Index", "SortedIndex"} -> "NotAKeyValueStore"
      [] type_info.kind = "KeyValueStore" -> "Virtualized"
      [] OTHER ->
            IF actor.kind = "Method" /\ actor.module_id = "Metadata" THEN "Metadata"
            ELSE IF actor.kind = "Method" /\ actor.module_id \in {"Royalty", "AccessRules"}
            THEN "NotAKeyValueStore"
            ELSE IF type_info.blueprint = MetadataBlueprint THEN "Virtualized"
            ELSE "NotAKeyValueStore"

\* ClientKeyValueStoreApi::lock_key_value_store_entry
lock_key_value_store_entry(nodes, lock_table, actor, node_id, key, flags) ==
    LET type_info == nodes[node_id].type_info
        module_id == key_value_module(type_info, actor)
    IN  IF type_info.kind = "None" THEN LockResult("KernelError", 0, nodes, lock_table)
        ELSE IF flags.unmodified_base \/ flags.force_write
        THEN LockResult("InvalidLockFlags", 0, nodes, lock_table)
        ELSE IF module_id = "NotAKeyValueStore"
        THEN LockResult("NotAKeyValueStore", 0, nodes, lock_table)
        ELSE kernel_lock_substate(nodes, lock_table, node_id, module_id, <<"Map", key>>, flags,
                                  EmptyEntry)

\* The check of sys_write_substate on the buffer: the error, or Ok.
check_substate_write(type_info, module_id, substate_key, buffer) ==
    CASE type_info.kind = "KeyValueStore" ->
            IF ~validate_payload_against_schema(buffer, type_info.value)
            THEN "InvalidSubstateWrite"
            ELSE IF ~type_info.can_own /\ buffer.own THEN "InvalidKeyValueStoreOwnership"
            ELSE "Ok"
      [] type_info.kind = "Object" /\ module_id = "Object" /\ substate_key[1] = "Tuple" ->
            LET substates == BlueprintSchema(type_info.blueprint).substates
            IN  IF substate_key[2] >= Len(substates) THEN "InvalidSubstateWrite"
                ELSE IF ~validate_payload_against_schema(buffer, substates[substate_key[2] + 1])
                THEN "InvalidSubstateWrite"
                ELSE "Ok"
      [] OTHER -> "Ok"

\* ClientSubstateLockApi::sys_write_substate; IndexedScryptoValue::from_vec
\* panics on a buffer that is no value, kernel_write_substate needs a
\* mutable lock.
write_substate(nodes, lock_table, lock_handle, buffer) ==
    IF lock_handle \notin 1..Len(lock_table) \/ ~lock_table[lock_handle].open
    THEN LockResult("KernelError", 0, nodes, lock_table)
    ELSE LET info == lock_table[lock_handle]
             type_info == nodes[info.node_id].type_info
             checked == check_substate_write(type_info, info.module_id, info.substate_key, buffer)
         IN  IF type_info.kind = "None" THEN LockResult("KernelError", 0, nodes, lock_table)
             ELSE IF checked # "Ok" THEN LockResult(checked, 0, nodes, lock_table)
             ELSE IF buffer.ty = "Garbage" THEN LockResult("panic", 0, nodes, lock_table)
             ELSE IF ~info.flags.mutable THEN LockResult("KernelError", 0, nodes, lock_table)
             ELSE LockResult("Ok", 0,
                             [nodes EXCEPT ![info.node_id].substates[info.module_id][info.substate_key] = buffer],
                             lock_table)

\* ClientIndexApi::insert_into_index (kind Index, key Map) and
\* ClientSortedIndexApi::insert_into_sorted_index (kind SortedIndex, key
\* Sorted); kernel_set_substate refuses a locked key.
insert_into(nodes, lock_table, kind, node_id, substate_key, buffer) ==
    IF nodes[node_id].type_info.kind = "None" THEN LockResult("KernelError", 0, nodes, lock_table)
    ELSE IF nodes[node_id].type_info.kind # kind
    THEN LockResult(IF kind = "Index" THEN "NotAnIterableStore" ELSE "NotASortedStore",
                    0, nodes, lock_table)
    ELSE IF buffer.ty = "Garbage" THEN LockResult("InputDecodeError", 0, nodes, lock_table)
    ELSE IF buffer.own THEN LockResult("CannotStoreOwnedInIterable", 0, nodes, lock_table)
    ELSE IF \E i \in 1..Len(lock_table) :
                /\ lock_table[i].open /\ lock_table[i].node_id = node_id
                /\ lock_table[i].module_id = "Object" /\ lock_table[i].substate_key = substate_key
    THEN LockResult("SubstateLocked", 0, nodes, lock_table)
    ELSE LockResult("Ok", 0, [nodes EXCEPT ![node_id].substates["Object"][substate_key] = buffer],
                    lock_table)

insert_into_index(nodes, lock_table, node_id, key, buffer) == insert_into(nodes, lock_table, "Index", node_id, <<"Map", key>>, buffer)

insert_into_sorted_index(nodes, lock_table, node_id, sorted_key, buffer) == insert_into(nodes, lock_table, "SortedIndex", node_id, <<"Sorted", sorted_key>>, buffer)

\* The resource manager of the fungible vault.
FungibleResourceManagerBlueprint == Blueprint_new("RESOURCE_PACKAGE", "FungibleResourceManager")

\* The fields a blueprint's objects start with.
InitialFields(blueprint) ==
    [k \in SysKeys |->
        IF k[1] = "Tuple" /\ k[2] < Len(BlueprintSchema(blueprint).substates)
        THEN Payload(BlueprintSchema(blueprint).substates[k[2] + 1], 0, FALSE)
        ELSE NoSubstate]

\* The nodes of the substate specification: a key-value store, an object of
\* the application, a fungible vault, an index, the vault's global resource
\* manager with its modules, and a sorted index.
SubNodes ==
    [n \in SysNodeIds |->
        CASE n = 1 -> SysNode("InternalKeyValueStore", KeyValueStoreInfo("U8", FALSE),
                              {"Virtualized"}, [m \in SysModuleIds |-> NoSubstates])
          [] n = 2 -> SysNode("InternalGenericComponent", ObjectInfo(AppBlueprint, FALSE, 0),
                              {"Object"},
                              [m \in SysModuleIds |-> IF m = "Object" THEN InitialFields(AppBlueprint)
                                                      ELSE NoSubstates])
          [] n = 3 -> SysNode("InternalFungibleVault", ObjectInfo(FungibleVaultBlueprint, FALSE, 5),
                              {"Object"},
                              [m \in SysModuleIds |->
                                    IF m = "Object" THEN InitialFields(FungibleVaultBlueprint)
                                    ELSE NoSubstates])
          [] n = 4 -> SysNode("InternalIndex", IndexInfo("Index"), {"Object"},
                              [m \in SysModuleIds |-> NoSubstates])
          [] n = 5 -> SysNode("GlobalFungibleResource",
                              ObjectInfo(FungibleResourceManagerBlueprint, TRUE, 0),
                              {"Object", "Metadata", "Royalty", "AccessRules"},
                              [m \in SysModuleIds |->
                                    CASE m = "Object" -> InitialFields(FungibleResourceManagerBlueprint)
                                      [] m = "Royalty" -> InitialFields(RoyaltyBlueprint)
                                      [] m = "AccessRules" -> InitialFields(AccessRulesBlueprint)
                                      [] OTHER -> NoSubstates])
          [] OTHER -> SysNode("InternalSortedIndex", IndexInfo("SortedIndex"), {"Object"},
                              [m \in SysModuleIds |-> NoSubstates])]

\* The actors of the calls: a function, and methods of the application's
\* object and of the vault.
SubActors ==
    {FunctionActor(AppBlueprint),
     MethodActor(2, "SELF", AppBlueprint, NoContext, 0),
     MethodActor(3, "SELF", FungibleVaultBlueprint,
                 [instance |-> 5, instance_blueprint |-> "FungibleResourceManager"], 5)}

\* The buffers written: values of two types, a value that owns a node and
\* bytes that are no value.
Buffers ==
    {Payload("U8", 1, FALSE), Payload("String", 1, FALSE), Payload("U8", 1, TRUE),
     Payload("Garbage", 0, FALSE)}

\* A call on the lock table, once its result r is known.
SysLockCall(op, r) ==
    /\ SysRunning
    /\ Len(r.lock_table) <= MaxHandles
    /\ sys_nodes' = r.nodes
    /\ sys_locks' = r.lock_table
    /\ sys_last' = [op |-> op, result |-> r.err, ret |-> r.handle]
    /\ UNCHANGED <<sys_next_id, sys_events, sys_replacements, sys_receipt, sys_input>>

sys_lock_field(actor, field, flags) ==
    /\ SysLockCall("lock_field", lock_field(sys_nodes, sys_locks, actor, field, flags))
    /\ UNCHANGED <<trackVars, feeVars, resVars, authVars, nfVars>>

sys_lock_parent_field(actor, field, flags) ==
    /\ SysLockCall("lock_parent_field", lock_parent_field(sys_nodes, sys_locks, actor, field, flags))
    /\ UNCHANGED <<trackVars, feeVars, resVars, authVars, nfVars>>

sys_lock_key_value_store_entry(actor, node_id, key, flags) ==
    /\ SysLockCall("lock_key_value_store_entry",
                   lock_key_value_store_entry(sys_nodes, sys_locks, actor, node_id, key, flags))
    /\ UNCHANGED <<trackVars, feeVars, resVars, authVars, nfVars>>

sys_write_substate(lock_handle, buffer) ==
    /\ SysLockCall("sys_write_substate", write_substate(sys_nodes, sys_locks, lock_handle, buffer))
    /\ UNCHANGED <<trackVars, feeVars, resVars, authVars, nfVars>>

\* ClientSubstateLockApi::sys_drop_lock
sys_drop_lock(lock_handle) ==
    /\ SysLockCall("sys_drop_lock",
                   IF lock_handle \in 1..Len(sys_locks) /\ sys_locks[lock_handle].open
                   THEN LockResult("Ok", 0, sys_nodes,
                                   [sys_locks EXCEPT ![lock_handle] = NoLockInfo])
                   ELSE LockResult("KernelError", 0, sys_nodes, sys_locks))
    /\ UNCHANGED <<trackVars, feeVars, resVars, authVars, nfVars>>

sys_insert_into_index(node_id, key, buffer) ==
    /\ SysLockCall("insert_into_index", insert_into_index(sys_nodes, sys_locks, node_id, key, buffer))
    /\ UNCHANGED <<trackVars, feeVars, resVars, authVars, nfVars>>

sys_insert_into_sorted_index(node_id, sorted_key, buffer) ==
    /\ SysLockCall("insert_into_sorted_index",
                   insert_into_sorted_index(sys_nodes, sys_locks, node_id, sorted_key, buffer))
    /\ UNCHANGED <<trackVars, feeVars, resVars, authVars, nfVars>>

SubInit ==
    /\ sys_nodes = SubNodes
    /\ sys_next_id = MaxSysNodes + 1
    /\ sys_locks = <<>>
    /\ sys_events = <<>>
    /\ sys_replacements = [n \in SysNodeIds |-> NoReplacement]
    /\ sys_receipt = <<>>
    /\ sys_input = AppBlueprint
    /\ sys_last = NoSysCall

\* The nodes the calls name: the stores, an object, and the vault.
SubTargets == {1, 2, 4, 6}

SubNext ==
    \/ \E actor \in SubActors, field \in {0, 1}, flags \in LockFlagsChoices : sys_lock_field(actor, field, flags)
    \/ \E actor \in SubActors, field \in {0, 1}, flags \in LockFlagsChoices : sys_lock_parent_field(actor, field, flags)
    \/ \E actor \in SubActors, node_id \in SubTargets, flags \in LockFlagsChoices : sys_lock_key_value_store_entry(actor, node_id, 1, flags)
    \/ \E lock_handle \in 1..MaxHandles, buffer \in Buffers : sys_write_substate(lock_handle, buffer)
    \/ \E lock_handle \in 1..MaxHandles : sys_drop_lock(lock_handle)
    \/ \E node_id \in SubTargets, buffer \in Buffers : sys_insert_into_index(node_id, 1, buffer)
    \/ \E node_id \in SubTargets, buffer \in Buffers : sys_insert_into_sorted_index(node_id, 1, buffer)

(***************************************************************************)
(* Events. The event store and the receipt are modelled after the design    *)
(* document (sections 4.3 and 6): add_event appends to the list of the      *)
(* transaction's events, add_replacement notes the global address a node    *)
(* has become, and the receipt lists the events with the emitters           *)
(* re-pointed. The costing module charges the call to the fee reserve.      *)
(***************************************************************************)
\* EventTypeIdentifier(Emitter::Method(node_id, module_id), local_type_index):
\* the schema's index of an event is written as the event's name.
MethodEmitter(node_id, module_id, local_type_index) == [kind |-> "Method", node_id |-> node_id, module_id |-> module_id, package_address |-> "", blueprint_name |-> "", local_type_index |-> local_type_index]

\* EventTypeIdentifier(Emitter::Function(package, SELF, blueprint), local_type_index)
FunctionEmitter(blueprint, local_type_index) == [kind |-> "Function", node_id |-> 0, module_id |-> "SELF", package_address |-> blueprint.package_address, blueprint_name |-> blueprint.blueprint_name, local_type_index |-> local_type_index]

\* EventStore::add_event that puts the event in front of the earlier ones.
add_event_in_front(events, event_type_identifier, event_data) == <<[identifier |-> event_type_identifier, data |-> event_data]>> \o events

\* EventStore::add_event
add_event(events, event_type_identifier, event_data) == Append(events, [identifier |-> event_type_identifier, data |-> event_data])

\* The events of the receipt: the emitter of an event of a node that has been
\* globalized is the global address and the module the node has become.
application_events(events, replacements) ==
    [i \in 1..Len(events) |->
        LET id == events[i].identifier
        IN  IF id.kind = "Method" /\ id.module_id = "SELF"
                    /\ replacements[id.node_id] # NoReplacement
            THEN [events[i] EXCEPT !.identifier.node_id = replacements[id.node_id].node_id,
                                   !.identifier.module_id = replacements[id.node_id].module_id]
            ELSE events[i]]

\* SystemService::consume_cost_units: CostingModule::apply_execution_cost with
\* the multiplier 5.
consume_cost_units(fr, units, reason) == consume_multiplied_execution(fr, units, 5, reason)

\* The blueprint emit_event takes the schema from, or the error.
EmitterBlueprint(nodes, actor) ==
    IF actor.kind = "Function" THEN actor.blueprint
    ELSE CASE actor.module_id = "AccessRules" -> AccessRulesBlueprint
           [] actor.module_id = "Royalty" -> RoyaltyBlueprint
           [] actor.module_id = "Metadata" -> MetadataBlueprint
           [] OTHER -> IF get_object_info(nodes, actor.node_id) = "Ok"
                       THEN nodes[actor.node_id].type_info.blueprint
                       ELSE NoBlueprint

\* The outcome of emit_event: the error (or Ok), the fee reserve and the
\* event store as the call leaves them.
EventResult(err, fr, events) == [err |-> err, fr |-> fr, events |-> events]

\* emit_event without the validation of the event data.
emit_event_unvalidated(fr, nodes, events, actor, event_name, event_data) ==
    LET costed == consume_cost_units(fr, 1, "RunSystem")
        blueprint == EmitterBlueprint(nodes, actor)
        blueprint_schema == BlueprintSchema(blueprint)
        event_type_identifier ==
            IF actor.kind = "Method"
            THEN MethodEmitter(actor.node_id, actor.module_id, event_name)
            ELSE FunctionEmitter(actor.blueprint, event_name)
    IN  IF costed.err # FeeOk THEN EventResult(costed.err, costed.fr, events)
        ELSE IF actor.kind = "Method" /\ actor.module_id = "SELF"
                    /\ get_object_info(nodes, actor.node_id) # "Ok"
        THEN EventResult(get_object_info(nodes, actor.node_id), costed.fr, events)
        ELSE IF ~blueprint_schema.found THEN EventResult("BlueprintNotFound", costed.fr, events)
        ELSE IF event_name \notin blueprint_schema.event_schema
        THEN EventResult("SchemaNotFoundError", costed.fr, events)
        ELSE EventResult("Ok", costed.fr, add_event(events, event_type_identifier, event_data))

\* ClientEventApi::emit_event; the cost of the call is one unit of the model
\* for each multiple.
emit_event(fr, nodes, events, actor, event_name, event_data) ==
    LET costed == consume_cost_units(fr, 1, "RunSystem")
        blueprint == EmitterBlueprint(nodes, actor)
        blueprint_schema == BlueprintSchema(blueprint)
        event_type_identifier ==
            IF actor.kind = "Method"
            THEN MethodEmitter(actor.node_id, actor.module_id, event_name)
            ELSE FunctionEmitter(actor.blueprint, event_name)
    IN  IF costed.err # FeeOk THEN EventResult(costed.err, costed.fr, events)
        ELSE IF actor.kind = "Method" /\ actor.module_id = "SELF"
                    /\ get_object_info(nodes, actor.node_id) # "Ok"
        THEN EventResult(get_object_info(nodes, actor.node_id), costed.fr, events)
        ELSE IF ~blueprint_schema.found THEN EventResult("BlueprintNotFound", costed.fr, events)
        ELSE IF event_name \notin blueprint_schema.event_schema
        THEN EventResult("SchemaNotFoundError", costed.fr, events)
        ELSE IF ~validate_payload_against_schema(event_data, "U8")
        THEN EventResult("EventSchemaNotMatch", costed.fr, events)
        ELSE EventResult("Ok", costed.fr, add_event(events, event_type_identifier, event_data))

sys_emit_event(actor, event_name, event_data) ==
    /\ SysRunning
    /\ LET r == emit_event(fee_reserve, sys_nodes, sys_events, actor, event_name, event_data)
       IN  /\ Len(r.events) <= MaxEvents
           /\ fee_reserve' = r.fr
           /\ sys_events' = r.events
           /\ sys_last' = [op |-> "emit_event", result |-> r.err, ret |-> 0]
    /\ UNCHANGED <<sys_nodes, sys_next_id, sys_locks, sys_replacements, sys_receipt, sys_input>>
    /\ UNCHANGED <<trackVars, tx, resVars, authVars, nfVars>>

\* The end of a transaction that has not failed: its receipt.
sys_finish ==
    /\ SysRunning
    /\ sys_receipt' = application_events(sys_events, sys_replacements)
    /\ sys_last' = [op |-> "finish", result |-> "Ok", ret |-> 0]
    /\ UNCHANGED <<sys_nodes, sys_next_id, sys_locks, sys_events, sys_replacements, sys_input>>
    /\ UNCHANGED <<trackVars, feeVars, resVars, authVars, nfVars>>

\* The nodes of the events specification: a key-value store, an object of the
\* application and an object of each module blueprint, ready to be globalized.
EvtNodes ==
    [n \in SysNodeIds |->
        CASE n = 1 -> SysNode("InternalKeyValueStore", KeyValueStoreInfo("U8", FALSE),
                              {"Virtualized"}, [m \in SysModuleIds |-> NoSubstates])
          [] n \in 2..5 ->
                LET blueprint == CASE n = 2 -> AppBlueprint
                                   [] n = 3 -> MetadataBlueprint
                                   [] n = 4 -> RoyaltyBlueprint
                                   [] OTHER -> AccessRulesBlueprint
                    self_module_id == IF n = 3 THEN "Virtualized" ELSE "Object"
                IN  SysNode("InternalGenericComponent", ObjectInfo(blueprint, FALSE, 0),
                            {self_module_id},
                            [m \in SysModuleIds |-> IF m = self_module_id
                                                    THEN InitialFields(blueprint)
                                                    ELSE NoSubstates])
          [] OTHER -> NoSysNode]

\* The fee reserve of the events specification: the limit and the loan pay
\* for MaxEvents calls of emit_event.
EvtInit ==
    /\ sys_nodes = EvtNodes
    /\ sys_next_id = 6
    /\ sys_locks = <<>>
    /\ sys_events = <<>>
    /\ sys_replacements = [n \in SysNodeIds |-> NoReplacement]
    /\ sys_receipt = <<>>
    /\ sys_input = AppBlueprint
    /\ sys_last = NoSysCall
    /\ fee_reserve = SystemLoanFeeReserve_new(2, 0, 5 * MaxEvents, 5 * MaxEvents + 1, FALSE)
    /\ tx = NewTx

\* The actors that can be running: a function of the application's blueprint,
\* a method of a live object of it and, once it is global, of its royalty
\* module.
EvtActors ==
    {FunctionActor(AppBlueprint)}
        \cup {MethodActor(n, "SELF", AppBlueprint, NoContext, 0) :
                n \in {m \in SysNodeIds : sys_nodes[m].type_info.blueprint = AppBlueprint}}
        \cup {MethodActor(n, "Royalty", AppBlueprint, NoContext, 0) :
                n \in {m \in SysNodeIds : /\ sys_nodes[m].type_info.blueprint = AppBlueprint
                                          /\ sys_nodes[m].type_info.global}}

EventNames == {"Registered", "RoyaltyRegistered", "Unregistered"}

EventData == {Payload("U8", 1, FALSE), Payload("U8", 2, FALSE), Payload("String", 1, FALSE)}

\* Module maps that name the four objects in their roles or mix two of them up.
EvtModuleMaps ==
    {[m \in ObjectModuleIds |-> CASE m = "SELF" -> 2 [] m = "Metadata" -> 3
                                  [] m = "Royalty" -> 4 [] OTHER -> 5],
     [m \in ObjectModuleIds |-> CASE m = "SELF" -> 2 [] m = "Metadata" -> 3
                                  [] m = "Royalty" -> 5 [] OTHER -> 4]}

EvtNext ==
    \/ \E actor \in EvtActors, event_name \in EventNames, event_data \in EventData : sys_emit_event(actor, event_name, event_data)
    \/ \E modules \in EvtModuleMaps : sys_globalize(modules)
    \/ sys_finish

(***************************************************************************)
(* Non-fungible resources: mint_non_fungibles and burn of                   *)
(* src/radix-engine/src/model/substates/resource_manager.rs and the bucket  *)
(* of src/radix-engine/src/blueprints/resource/non_fungible/                *)
(* non_fungible_bucket.rs. LiquidNonFungibleResource,                       *)
(* LockedNonFungibleResource, the non-fungible store, the proofs and the    *)
(* Mint and Burn methods around the substate are not among the sources;     *)
(* they are modelled after the design document (sections 3, 4.7 and 8): the *)
(* liquid part is a set of ids, the locked part maps an id to its lock      *)
(* count, mint rejects an id that exists, burn consumes a bucket, a proof   *)
(* locks its ids when created and unlocks them when dropped.                *)
(***************************************************************************)
\* Bounds of the non-fungible model.
MaxNfIds == 3
MaxProofs == 2

NonFungibleLocalIds == 1..MaxNfIds

\* ResourceType::NonFungible, whose divisibility() is 0.
NonFungibleType == [kind |-> "NonFungible", divisibility |-> 0]

NfResult(err, rm, store, ids) == [err |-> err, rm |-> rm, store |-> store, ids |-> ids]

\* ResourceManagerSubstate::mint_non_fungibles; entries is the key set of the
\* HashMap handed in.
mint_non_fungibles(rm, entries) ==
    IF rm.resource_type.kind # "NonFungible"
    THEN [err |-> "ResourceTypeDoesNotMatch", rm |-> rm, ids |-> {}]
    ELSE LET amount == Cardinality(entries) * One
         IN  IF check_amount(rm, amount) # "Ok"
             THEN [err |-> "InvalidAmount", rm |-> rm, ids |-> {}]
             ELSE [err |-> "Ok", rm |-> [rm EXCEPT !.total_supply = @ + amount],
                   ids |-> entries]

\* The Mint method writing every minted id into the store without looking
\* whether it exists.
ResourceManager_mint_unchecked(rm, store, entries) ==
    LET r == mint_non_fungibles(rm, entries)
    IN  IF r.err # "Ok" THEN NfResult(r.err, rm, store, {})
        ELSE NfResult("Ok", r.rm, store \cup r.ids, r.ids)

\* The Mint method around mint_non_fungibles: an id that is in the store
\* already is rejected, and the failed call leaves nothing behind.
ResourceManager_mint(rm, store, entries) ==
    LET r == mint_non_fungibles(rm, entries)
    IN  IF r.err # "Ok" THEN NfResult(r.err, rm, store, {})
        ELSE IF r.ids \cap store # {} THEN NfResult("NonFungibleAlreadyExists", rm, store, {})
        ELSE NfResult("Ok", r.rm, store \cup r.ids, r.ids)

\* The Burn method around ResourceManagerSubstate::burn: the ids of the burned
\* bucket leave the store.
ResourceManager_burn(rm, store, ids) ==
    NfResult("Ok", burn(rm, Cardinality(ids) * One), store \ ids, ids)

\* The fields of a non-fungible bucket: NonFungibleBucketField::Liquid and
\* ::Locked (id -> lock count, 0 for an id the map does not hold).
NonFungibleBucket(liquid, locked) == [liquid |-> liquid, locked |-> locked]

EmptyBucket == NonFungibleBucket({}, [id \in NonFungibleLocalIds |-> 0])

\* LockedNonFungibleResource::ids
locked_ids(bucket) == {id \in NonFungibleLocalIds : bucket.locked[id] > 0}

\* A bucket call's outcome: the error (or Ok), the bucket as the call leaves it
\* and the ids of the resource it returns.
BucketResult(err, bucket, taken) == [err |-> err, bucket |-> bucket, taken |-> taken]

\* NonFungibleBucketBlueprint::internal_take taking also what is not liquid.
internal_take_any(bucket, ids) ==
    BucketResult("Ok",
                 [bucket EXCEPT !.liquid = @ \ ids,
                                !.locked = [id \in NonFungibleLocalIds |->
                                                IF id \in ids THEN 0 ELSE @[id]]],
                 ids)

\* NonFungibleBucketBlueprint::internal_take; take_by_ids fails unless every id
\* is liquid.
internal_take(bucket, ids) ==
    IF ~(ids \subseteq bucket.liquid) THEN BucketResult("NonFungibleNotFound", bucket, {})
    ELSE BucketResult("Ok", [bucket EXCEPT !.liquid = @ \ ids], ids)

\* NonFungibleBucketBlueprint::internal_put
internal_put(bucket, ids) ==
    IF ids = {} THEN bucket ELSE [bucket EXCEPT !.liquid = @ \cup ids]

\* NonFungibleBucketBlueprint::take_advanced with WithdrawStrategy::Exact. first
\* is what take_by_amount takes: the first n liquid ids in the order of the
\* set, which the model does not keep; the calls try every choice of n ids.
take_advanced(bucket, amount, first) ==
    IF amount < 0 THEN BucketResult("InvalidAmount", bucket, {})
    ELSE IF amount > Cardinality(bucket.liquid) * One + One
    THEN BucketResult("InsufficientBalance", bucket, {})
    ELSE IF amount % One # 0 THEN BucketResult("InvalidAmount", bucket, {})
    ELSE IF amount \div One > Cardinality(bucket.liquid)
    THEN BucketResult("InsufficientBalance", bucket, {})
    ELSE internal_take(bucket, first)

\* NonFungibleBucketBlueprint::take_non_fungibles
take_non_fungibles(bucket, ids) == internal_take(bucket, ids)

\* NonFungibleBucketBlueprint::put
NonFungibleBucket_put(bucket, ids) == internal_put(bucket, ids)

\* NonFungibleBucketBlueprint::get_amount: liquid_amount + locked_amount
get_amount(bucket) == Cardinality(bucket.liquid) * One + Cardinality(locked_ids(bucket)) * One

\* NonFungibleBucketBlueprint::get_non_fungible_local_ids
get_non_fungible_local_ids(bucket) == bucket.liquid \cup locked_ids(bucket)

\* NonFungibleBucketBlueprint::lock_non_fungibles raising the count of the ids
\* that are locked already by two.
lock_non_fungibles_twice(bucket, ids) ==
    LET delta == {id \in ids : bucket.locked[id] = 0}
        t == internal_take(bucket, delta)
    IN  IF t.err # "Ok" THEN BucketResult(t.err, bucket, {})
        ELSE BucketResult("Ok",
                [t.bucket EXCEPT !.locked = [id \in NonFungibleLocalIds |->
                                    IF id \notin ids THEN @[id]
                                    ELSE IF @[id] = 0 THEN 1 ELSE @[id] + 2]],
                {})

\* NonFungibleBucketBlueprint::lock_non_fungibles
lock_non_fungibles(bucket, ids) ==
    LET delta == {id \in ids : bucket.locked[id] = 0}
        t == internal_take(bucket, delta)
    IN  IF t.err # "Ok" THEN BucketResult(t.err, bucket, {})
        ELSE BucketResult("Ok",
                [t.bucket EXCEPT !.locked = [id \in NonFungibleLocalIds |->
                                    IF id \in ids THEN @[id] + 1 ELSE @[id]]],
                {})

\* NonFungibleBucketBlueprint::unlock_non_fungibles; the expect panics on an id
\* that is not locked.
unlock_non_fungibles(bucket, ids) ==
    IF \E id \in ids : bucket.locked[id] = 0 THEN BucketResult("panic", bucket, {})
    ELSE LET liquid_non_fungibles == {id \in ids : ~(bucket.locked[id] > 1)}
             unlocked == [bucket EXCEPT !.locked = [id \in NonFungibleLocalIds |->
                                            IF id \notin ids THEN @[id]
                                            ELSE IF @[id] > 1 THEN @[id] - 1 ELSE 0]]
         IN  BucketResult("Ok", internal_put(unlocked, liquid_non_fungibles), {})

\* NonFungibleBucketBlueprint::create_proof_of_non_fungibles: the ids are locked
\* and the proof holds them as its evidence.
create_proof_of_non_fungibles(bucket, ids) == lock_non_fungibles(bucket, ids)

NfCall(op, result, ids) == [op |-> op, result |-> result, ids |-> ids]

\* An error ends the transaction; its buckets and proofs are gone with it.
NfRunning == nf_last.result = "Ok"

\* The ids held by the other buckets.
held_ids == {id \in NonFungibleLocalIds : nf_held[id] > 0}

hold(held, ids) == [id \in NonFungibleLocalIds |-> IF id \in ids THEN held[id] + 1 ELSE held[id]]

unhold(held, ids) == [id \in NonFungibleLocalIds |-> IF id \in ids THEN held[id] - 1 ELSE held[id]]

\* A bucket call that returns a resource: the ids go into a bucket of their own.
NfBucketCall(op, r) ==
    /\ nf_bucket' = r.bucket
    /\ nf_held' = IF r.err = "Ok" THEN hold(nf_held, r.taken) ELSE nf_held
    /\ nf_last' = NfCall(op, r.err, r.taken)

\* Mint of the entries; the minted bucket stays with the caller.
nf_mint(entries) ==
    /\ NfRunning
    /\ LET r == ResourceManager_mint(nf_resource_manager, nf_store, entries)
       IN  /\ nf_resource_manager' = r.rm
           /\ nf_store' = r.store
           /\ nf_held' = IF r.err = "Ok" THEN hold(nf_held, r.ids) ELSE nf_held
           /\ nf_last' = NfCall("mint", r.err, r.ids)
    /\ UNCHANGED <<nf_bucket, nf_proofs>>
    /\ UNCHANGED <<trackVars, feeVars, resVars, authVars, sysVars>>

\* Burn of one of the other buckets.
nf_burn(ids) ==
    /\ NfRunning
    /\ ids # {} /\ ids \subseteq held_ids
    /\ LET r == ResourceManager_burn(nf_resource_manager, nf_store, ids)
       IN  /\ nf_resource_manager' = r.rm
           /\ nf_store' = r.store
           /\ nf_held' = unhold(nf_held, ids)
           /\ nf_last' = NfCall("burn", r.err, ids)
    /\ UNCHANGED <<nf_bucket, nf_proofs>>
    /\ UNCHANGED <<trackVars, feeVars, resVars, authVars, sysVars>>

\* Bucket take by amount; first is any set of as many liquid ids as the amount
\* asks for (none when the amount is refused).
nf_take(amount, first) ==
    /\ NfRunning
    /\ first \subseteq nf_bucket.liquid
    /\ Cardinality(first) = (IF amount < 0 \/ amount % One # 0
                                \/ amount \div One > Cardinality(nf_bucket.liquid)
                             THEN 0 ELSE amount \div One)
    /\ NfBucketCall("take", take_advanced(nf_bucket, amount, first))
    /\ UNCHANGED <<nf_resource_manager, nf_store, nf_proofs>>
    /\ UNCHANGED <<trackVars, feeVars, resVars, authVars, sysVars>>

\* Bucket take by ids.
nf_take_non_fungibles(ids) ==
    /\ NfRunning
    /\ NfBucketCall("take_non_fungibles", take_non_fungibles(nf_bucket, ids))
    /\ UNCHANGED <<nf_resource_manager, nf_store, nf_proofs>>
    /\ UNCHANGED <<trackVars, feeVars, resVars, authVars, sysVars>>

\* One of the other buckets is put into the bucket.
nf_put(ids) ==
    /\ NfRunning
    /\ ids # {} /\ ids \subseteq held_ids
    /\ nf_bucket' = NonFungibleBucket_put(nf_bucket, ids)
    /\ nf_held' = unhold(nf_held, ids)
    /\ nf_last' = NfCall("put", "Ok", ids)
    /\ UNCHANGED <<nf_resource_manager, nf_store, nf_proofs>>
    /\ UNCHANGED <<trackVars, feeVars, resVars, authVars, sysVars>>

\* A proof of the ids is created from the bucket.
nf_create_proof(ids) ==
    /\ NfRunning
    /\ Len(nf_proofs) < MaxProofs
    /\ LET r == create_proof_of_non_fungibles(nf_bucket, ids)
       IN  /\ nf_bucket' = r.bucket
           /\ nf_proofs' = IF r.err = "Ok" THEN Append(nf_proofs, ids) ELSE nf_proofs
           /\ nf_last' = NfCall("create_proof", r.err, ids)
    /\ UNCHANGED <<nf_resource_manager, nf_store, nf_held>>
    /\ UNCHANGED <<trackVars, feeVars, resVars, authVars, sysVars>>

\* The i-th proof is dropped: its ids are unlocked.
nf_drop_proof(i) ==
    /\ NfRunning
    /\ i \in 1..Len(nf_proofs)
    /\ LET r == unlock_non_fungibles(nf_bucket, nf_proofs[i])
       IN  /\ nf_bucket' = r.bucket
           /\ nf_proofs' = [j \in 1..(Len(nf_proofs) - 1) |->
                                IF j < i THEN nf_proofs[j] ELSE nf_proofs[j + 1]]
           /\ nf_last' = NfCall("drop_proof", r.err, nf_proofs[i])
    /\ UNCHANGED <<nf_resource_manager, nf_store, nf_held>>
    /\ UNCHANGED <<trackVars, feeVars, resVars, authVars, sysVars>>

\* A new non-fungible resource without ids and an empty bucket of it.
NfStart ==
    /\ nf_resource_manager = ResourceManagerSubstate_new(NonFungibleType, OpenAuth)
    /\ nf_store = {}
    /\ nf_bucket = EmptyBucket
    /\ nf_proofs = <<>>
    /\ nf_held = [id \in NonFungibleLocalIds |-> 0]
    /\ nf_last = NfCall("new", "Ok", {})

NfIdle == NfStart

\* The id sets the calls name.
IdSets == SUBSET NonFungibleLocalIds \ {{}}

\* Amounts: negative, half a token, none, one, two, ... one more than there are ids.
NfAmounts == {0 - One, One \div 2} \cup {n * One : n \in 0..(MaxNfIds + 1)}

NfNext ==
    \/ \E entries \in IdSets : nf_mint(entries)
    \/ \E ids \in IdSets : nf_burn(ids)
    \/ \E amount \in NfAmounts, first \in SUBSET NonFungibleLocalIds : nf_take(amount, first)
    \/ \E ids \in IdSets : nf_take_non_fungibles(ids)
    \/ \E ids \in IdSets : nf_put(ids)
    \/ \E ids \in IdSets : nf_create_proof(ids)
    \/ \E i \in 1..MaxProofs : nf_drop_proof(i)

(***************************************************************************)
(* The specifications: one per subsystem, the variables of the other        *)
(* subsystems staying as they start.                                        *)
(***************************************************************************)
\* A Track over a store that holds a value under every key of its node.
TrackIdle == TrackInit /\ \A d \in Keys : substate_db[DbNode][d] # NoValue

\* Any sequence of at most MaxSteps calls of the Track.
Init == TrackInit /\ FeeIdle /\ ResIdle /\ AuthIdle /\ SysIdle /\ NfIdle

Spec == Init /\ [][TrackNext]_vars

\* The execution of one transaction against its fee reserve.
InitFee == TrackIdle /\ FeeInit /\ ResIdle /\ AuthIdle /\ SysIdle /\ NfIdle

SpecFee == InitFee /\ [][FeeNext]_vars

\* Transactions that mint, move and burn a fungible resource.
InitRes == TrackIdle /\ FeeIdle /\ ResInit /\ AuthIdle /\ SysIdle /\ NfIdle

SpecRes == InitRes /\ [][ResNext]_vars

\* Calls checked by the auth module.
InitAuth ==
    /\ TrackIdle /\ FeeIdle
    /\ \E auth \in AuthChoices : ResStart(ResourceManagerSubstate_new(FungibleType(0), auth))
    /\ AuthStart
    /\ SysIdle
    /\ NfIdle

SpecAuth == InitAuth /\ [][AuthNext]_vars

\* Objects created and globalized through the system API.
InitObj == TrackIdle /\ FeeIdle /\ ResIdle /\ AuthIdle /\ ObjInit /\ NfIdle

SpecObj == InitObj /\ [][ObjNext]_vars

\* Locks and writes through the system API on a heap of six nodes.
InitSub == TrackIdle /\ FeeIdle /\ ResIdle /\ AuthIdle /\ SubInit /\ NfIdle

SpecSub == InitSub /\ [][SubNext]_vars

\* Events emitted before and after an object is globalized, and the receipt.
InitEvt == TrackIdle /\ ResIdle /\ AuthIdle /\ EvtInit /\ NfIdle

SpecEvt == InitEvt /\ [][EvtNext]_vars

\* Mints, burns, takes, puts and proofs of a non-fungible resource in one transaction.
InitNf == TrackIdle /\ FeeIdle /\ ResIdle /\ AuthIdle /\ SysIdle /\ NfStart

SpecNf == InitNf /\ [][NfNext]_vars

(***************************************************************************)
(* Claims about the resource manager, the auth module and the fee reserve.  *)
(***************************************************************************)
\* C4: at every commit the amount minted minus the amount burned equals the sum
\* of the balances of all vaults of the resource and equals the resource
\* manager's total supply.
C4_Conservation ==
    res_tx.state = "committed" =>
        /\ minted - burned = SumOver(vaults, VaultIds)
        /\ minted - burned = resource_manager.total_supply

\* C4 witness: a commit after the resource was minted, burned and put in a vault.
C4_Witness ==
    /\ res_tx.state = "committed"
    /\ minted > 0 /\ burned > 0
    /\ \E v \in VaultIds : vaults[v] > 0

\* The rule that protects an actor, by the rules last installed on the resource.
ProtectingRule(actor) ==
    CASE actor.kind = "ResourceManager" /\ actor.method \in {"Mint", "Burn"} ->
            h_rule[actor.method].auth
      [] actor.kind = "ResourceManager" /\ actor.method \in {"UpdateAuth", "LockAuth"} ->
            h_rule[actor.args].update_auth
      [] actor.kind = "Vault" /\ actor.method = "Take" -> h_rule["Withdraw"].auth
      [] OTHER -> AllowAll

\* C5: a call of a method proceeds only if the proofs of the caller's auth zone
\* satisfy the rule that protects the method; otherwise it fails with
\* Unauthorized and no auth-zone frame is started for the callee.
C5_ProtectedCallsNeedProof ==
    [][\A actor \in ActorChoices :
            (on_before_frame_start(actor) /\ actor.kind # "AuthZone") =>
                LET satisfied == Satisfies(auth_zone[Len(auth_zone)], ProtectingRule(actor))
                IN  /\ auth_last'.result = "Ok" => satisfied
                    /\ ~satisfied =>
                            /\ auth_last'.result = "Unauthorized"
                            /\ auth_zone' = auth_zone
                            /\ call_stack' = call_stack]_vars

\* C5 witness: a mint protected by a badge has been let through and given a frame.
C5_Witness ==
    /\ auth_last.op = "on_before_frame_start" /\ auth_last.result = "Ok"
    /\ auth_last.actor.method = "Mint" /\ auth_last.frame_started
    /\ h_rule["Mint"].auth.kind = "Require"

\* Nothing owed and no deferred cost outstanding.
LoanRepaid == fee_reserve.xrd_owed = 0 /\ SumOver(fee_reserve.execution_deferred, Reasons) = 0

\* C6: a transaction commits only if the system loan is fully repaid, and a
\* transaction that ends with the loan not fully repaid is rejected.
C6_CommitOnlyIfRepaid ==
    /\ tx.receipt \in Commits => LoanRepaid
    /\ (tx.phase = "ended" /\ ~LoanRepaid) => tx.receipt = "Reject"

\* C6 witness: a commit of a transaction that used up its loan, and whose locked
\* fee has paid for it.
C6_Witness ==
    /\ tx.receipt = "CommitSuccess"
    /\ fee_reserve.remaining_loan_balance = 0
    /\ fee_reserve.total_cost_units_consumed > MaxLoan
    /\ fee_reserve.payments # <<>>

\* An error other than the configured abort ended the execution.
EndedWithError == tx.phase = "ended" /\ tx.error \notin {NoError, "Abort", "SuccessButFeeLoanNotRepaid"}

\* The error came before the loan and the deferred costs were repaid.
ErrorBeforeRepayment == EndedWithError /\ (tx.error = "InputDecodeError" \/ ~LoanRepaid)

ErrorAfterRepayment == EndedWithError /\ tx.error # "InputDecodeError" /\ LoanRepaid

\* What C7 says of errors: before repayment Reject with no state change and no
\* fee, after repayment Commit(Failure) with the fees collected.
ErrorsClassified ==
    /\ ErrorBeforeRepayment =>
            tx.receipt = "Reject" /\ tx.state_updates = "none" /\ tx.fee_paid = 0
    /\ ErrorAfterRepayment =>
            /\ tx.receipt = "CommitFailure"
            /\ tx.fee_paid > 0
            /\ tx.fee_paid = finalize(fee_reserve).total_execution_cost_xrd
                                + finalize(fee_reserve).total_royalty_cost_xrd

\* C7 as stated: every execution ends in Commit(Success), Commit(Failure) or
\* Reject, with errors classified by whether the loan was repaid.
C7_ThreeOutcomes ==
    tx.phase = "ended" =>
        /\ tx.receipt \in {"CommitSuccess", "CommitFailure", "Reject"}
        /\ ErrorsClassified

\* C7 amended: every execution ends in Commit(Success), Commit(Failure), Reject
\* or, only when the reserve is configured to abort once the loan is repaid,
\* Abort; with errors classified by whether the loan was repaid.
C7_OutcomesWithAbort ==
    tx.phase = "ended" =>
        /\ tx.receipt \in {"CommitSuccess", "CommitFailure", "Reject", "Abort"}
        /\ tx.receipt = "Abort" => fee_reserve.abort_when_loan_repaid
        /\ ErrorsClassified

\* C7 witness: an error after the loan was repaid from a locked fee has ended the
\* execution in Commit(Failure).
C7_Witness ==
    /\ ErrorAfterRepayment
    /\ tx.receipt = "CommitFailure"
    /\ fee_reserve.payments # <<>>

(***************************************************************************)
(* Claims about the Track.                                                  *)
(***************************************************************************)
\* The outstanding handles on key k of node n.
HandlesOn(n, k) == {l \in locks : l.node = n /\ l.key = k}

\* C1: at every point of a transaction each key has no outstanding lock, only
\* read locks, or exactly one mutable lock and no read lock.
C1_ReadersXorWriter ==
    phase = "running" =>
        \A n \in Nodes, k \in Keys :
            (\E l \in HandlesOn(n, k) : l.flags.mutable) => Cardinality(HandlesOn(n, k)) = 1

\* C2: after revert_non_force_write_changes the state updates hold a Set or a
\* Delete for a key only if a force-write lock was released on that key before.
C2_OnlyForceWritesSurvive ==
    phase = "reverted" =>
        \A n \in Nodes, k \in Keys :
            database_updates[n][map_to_db_key(k)].kind # "None" => h_force[n][k].tag # "Vacant"

\* C2 witness: a revert after which a force-written key is in the updates while a
\* key that was set without a lock is not.
C2_Witness ==
    /\ phase = "reverted"
    /\ \E n \in Nodes, k \in Keys : database_updates[n][map_to_db_key(k)].kind = "Set"
    /\ \E n \in Nodes, k \in Keys :
            /\ h_written[n][k] # NoValue
            /\ database_updates[n][map_to_db_key(k)].kind = "None"

\* C3: after revert_non_force_write_changes every key on which a force-write lock
\* was released holds exactly the state recorded at the release, whether its node
\* was in the store or was created in this transaction.
C3_ForceWriteReplayed ==
    last.op = "revert" =>
        \A n \in Nodes, k \in Keys :
            h_force[n][k].tag # "Vacant" =>
                /\ last.result = "Ok"
                /\ tracked_nodes[n].present
                /\ Tracked(tracked_nodes, n, k) = h_force[n][k]

\* The value the store holds for key k of node n.
StoreValue(n, k) == substate_db[n][map_to_db_key(k)]

\* C8 as stated: a read through a handle returns the value of the most recent set
\* or write to the key, or the store's value if there was none.
C8_ReadSeesLastSetOrWrite ==
    [][\A l \in locks :
            (read_substate(l) /\ last'.result = "Ok") =>
                last'.ret = IF h_written[l.node][l.key] # NoValue
                            THEN h_written[l.node][l.key]
                            ELSE StoreValue(l.node, l.key)]_vars

\* C8 amended: a read through a handle returns the value most recently given to
\* the key in this transaction (by set, by a write through a handle, as an
\* initial substate of create_node or as the default installed by a virtualizing
\* acquire_lock), or the store's value if there was none.
C8_ReadSeesLastGivenValue ==
    [][\A l \in locks :
            (read_substate(l) /\ last'.result = "Ok") =>
                last'.ret = IF h_given[l.node][l.key] # NoValue
                            THEN h_given[l.node][l.key]
                            ELSE StoreValue(l.node, l.key)]_vars

\* C8 witness: a read has returned a value that differs from the store's and was
\* written earlier to the key of an outstanding handle.
C8_Witness ==
    /\ last.op = "read" /\ last.result = "Ok"
    /\ \E l \in locks :
            /\ h_written[l.node][l.key] = last.ret
            /\ StoreValue(l.node, l.key) # NoValue
            /\ StoreValue(l.node, l.key) # last.ret

\* The variant set moves a key to, per C9 (an absent entry counts as Garbage).
SetTarget(tag) ==
    CASE tag \in {"Garbage", "Vacant", "WriteOnlyDelete"} -> "WriteOnlyUpdate"
      [] tag \in {"ReadOnlyExistent", "ReadExistAndWriteDelete"} -> "ReadExistAndWriteUpdate"
      [] tag = "ReadOnlyNonExistent" -> "ReadNonExistAndWrite"
      [] OTHER -> tag

\* C9: a set that is not refused for a lock moves the key to the variant named
\* by the claim, keeps the base of a key read from the store, and leaves the key
\* holding the new value.
C9_SetTransitions ==
    [][\A n \in Nodes, k \in Keys, value \in Values :
            (set_substate(n, k, value) /\ last'.result # "SubstateLocked") =>
                LET pre == Tracked(tracked_nodes, n, k)
                    post == Tracked(tracked_nodes', n, k)
                IN  /\ last'.result = "Ok"
                    /\ post.tag = SetTarget(pre.tag)
                    /\ pre.tag = "ReadOnlyExistent" => post.base = pre.value
                    /\ get(post) = value]_vars

\* C10: a take that is not refused for a lock returns the value the key held,
\* leaves the key without a value, and moves WriteOnly to WriteOnly(Delete),
\* ReadExistAndWrite(base, _) to ReadExistAndWrite(base, Delete) and
\* ReadOnly(Existent(v)) to ReadExistAndWrite(v, Delete).
C10_TakeTransitions ==
    [][\A n \in Nodes, k \in Keys :
            (take_substate(n, k) /\ last'.result = "Ok") =>
                LET pre == Tracked(get_tracked_substate(tracked_nodes, n, k), n, k)
                    post == Tracked(tracked_nodes', n, k)
                IN  /\ last'.ret = get(pre)
                    /\ get(post) = NoValue
                    /\ pre.tag \in {"WriteOnlyUpdate", "WriteOnlyDelete"} =>
                            post.tag = "WriteOnlyDelete"
                    /\ pre.tag \in {"ReadExistAndWriteUpdate", "ReadExistAndWriteDelete"} =>
                            post.tag = "ReadExistAndWriteDelete" /\ post.base = pre.base
                    /\ pre.tag = "ReadOnlyExistent" =>
                            post.tag = "ReadExistAndWriteDelete" /\ post.base = pre.value]_vars

\* C10 witness: a take has returned a value, and keys stand in both delete states.
C10_Witness ==
    /\ last.op = "take" /\ last.result = "Ok" /\ last.ret # NoValue
    /\ \E n \in Nodes, k \in Keys : Tracked(tracked_nodes, n, k).tag = "ReadExistAndWriteDelete"
    /\ \E n \in Nodes, k \in Keys : Tracked(tracked_nodes, n, k).tag = "WriteOnlyDelete"

\* The read-only form u of a key that was t before the revert.
RevertedForm(t, u) ==
    CASE t.tag \in {"ReadExistAndWriteUpdate", "ReadExistAndWriteDelete"} ->
            u.tag = "ReadOnlyExistent" /\ u.value = t.base
      [] t.tag = "ReadNonExistAndWrite" -> u.tag = "ReadOnlyNonExistent"
      [] t.tag \in {"ReadOnlyExistent", "ReadOnlyNonExistent", "Vacant"} -> u = t
      [] t.tag \in {"Garbage", "New", "WriteOnlyUpdate", "WriteOnlyDelete"} -> u.tag = "Garbage"

\* C11: revert restores each key to its read-only form: ReadExistAndWrite becomes
\* ReadOnly(Existent) with the value originally read from the store,
\* ReadNonExistAndWrite becomes ReadOnly(NonExistent), ReadOnly stays as it is,
\* and Garbage, New and WriteOnly become Garbage. Checked on every key the
\* Track holds when it reverts, and on the keys the revert leaves in the Track
\* (those of the nodes it keeps that no force-write is replayed on).
C11_RevertForms ==
    [][revert_non_force_write_changes =>
        \A n \in Nodes, d \in Keys :
            LET t == tracked_nodes[n].substates[d]
            IN  /\ RevertedForm(t, TrackedKey_revert_writes(t))
                /\ (~tracked_nodes[n].is_new
                        /\ force_write_tracked_nodes.substates[n][d].tag = "Vacant") =>
                        /\ RevertedForm(t, tracked_nodes'[n].substates[d])
                        /\ t.tag \in {"ReadExistAndWriteUpdate", "ReadExistAndWriteDelete"} =>
                                tracked_nodes'[n].substates[d].value = substate_db[n][d]]_vars

\* C11 witness: a revert has put a key that was written in this transaction back
\* to ReadOnly(Existent) with the value of the store, which is not the one written.
C11_Witness ==
    /\ phase = "reverted"
    /\ \E n \in Nodes, k \in Keys :
            /\ h_written[n][k] # NoValue
            /\ Tracked(tracked_nodes, n, k).tag = "ReadOnlyExistent"
            /\ Tracked(tracked_nodes, n, k).value = substate_db[n][map_to_db_key(k)]
            /\ Tracked(tracked_nodes, n, k).value # h_written[n][k]

\* A lock with these flags can be granted next to the handles out on the key.
LockCompatible(n, k, flags) ==
    IF flags.mutable THEN HandlesOn(n, k) = {}
    ELSE \A h \in HandlesOn(n, k) : ~h.flags.mutable

\* The key has been read from the store, where it exists, and not mutated.
OnlyRead(n, k) ==
    /\ ~h_mutated[n][k]
    /\ Tracked(tracked_nodes, n, k).tag = "ReadOnlyExistent"

\* C12 as stated: acquire_lock with unmodified-base on a key mutated earlier in
\* the transaction (set, written through a lock, or taken) fails with
\* LockUnmodifiedBaseOnUpdatedSubstate and grants no lock; on a key that has
\* only been read (and that no handle held on it excludes) it succeeds.
C12_UnmodifiedBaseOnMutated ==
    [][\A n \in Nodes, k \in Keys, flags \in LockFlagsChoices, virtualize \in {NoValue, MaxVal} :
            (/\ last'.op = "acquire_lock" /\ flags.unmodified_base
             /\ h_mutated[n][k] \/ OnlyRead(n, k)
             /\ acquire_lock_virtualize(n, k, flags, virtualize)) =>
                /\ h_mutated[n][k] =>
                        /\ last'.result = "LockUnmodifiedBaseOnUpdatedSubstate"
                        /\ locks' = locks
                /\ (OnlyRead(n, k) /\ LockCompatible(n, k, flags)) =>
                        /\ last'.result = "Ok"
                        /\ locks' # locks]_vars

\* C12 amended: on a mutated key the acquire fails and grants no lock, with
\* LockUnmodifiedBaseOnUpdatedSubstate, or with LockUnmodifiedBaseOnNewSubstate
\* for a key of a node created in this transaction, or with NotFound when the
\* mutations have left the key absent as it is in the store; on a key that has
\* only been read it succeeds.
C12_UnmodifiedBaseErrors ==
    [][\A n \in Nodes, k \in Keys, flags \in LockFlagsChoices, virtualize \in {NoValue, MaxVal} :
            (/\ last'.op = "acquire_lock" /\ flags.unmodified_base
             /\ h_mutated[n][k] \/ OnlyRead(n, k)
             /\ acquire_lock_virtualize(n, k, flags, virtualize)) =>
                /\ h_mutated[n][k] =>
                        /\ locks' = locks
                        /\ \/ last'.result = "LockUnmodifiedBaseOnUpdatedSubstate"
                           \/ /\ last'.result = "LockUnmodifiedBaseOnNewSubstate"
                              /\ tracked_nodes[n].is_new
                           \/ /\ last'.result = "NotFound"
                              /\ substate_db[n][map_to_db_key(k)] = NoValue
                              /\ Tracked(tracked_nodes, n, k).tag = "ReadOnlyNonExistent"
                /\ (OnlyRead(n, k) /\ LockCompatible(n, k, flags)) =>
                        /\ last'.result = "Ok"
                        /\ locks' # locks]_vars

\* C12 witness: an unmodified-base acquire on a key of the store that was set in
\* this transaction has been refused with LockUnmodifiedBaseOnUpdatedSubstate.
C12_Witness ==
    /\ last.op = "acquire_lock"
    /\ last.result = "LockUnmodifiedBaseOnUpdatedSubstate"
    /\ locks = {}
    /\ \E k \in Keys : h_mutated[DbNode][k] /\ h_written[DbNode][k] # NoValue

\* The call was refused with SubstateLocked and has left the key as it was.
RefusedAsLocked(n, k) ==
    /\ last'.result = "SubstateLocked"
    /\ Tracked(tracked_nodes', n, k) = Tracked(tracked_nodes, n, k)

\* C13: set on a key that has an outstanding lock fails with SubstateLocked and
\* leaves the key's tracked state and value unchanged; the same holds for take.
C13_LockedKeyRefusesSetAndTake ==
    [][\A n \in Nodes, k \in Keys :
            HandlesOn(n, k) # {} =>
                /\ \A value \in Values :
                        (last'.op = "set" /\ set_substate(n, k, value)) => RefusedAsLocked(n, k)
                /\ (last'.op = "take" /\ take_substate(n, k)) => RefusedAsLocked(n, k)]_vars

\* The overlay-over-store view of a node's module: the value under db key d, that
\* of the overlay when the key is tracked and that of the store otherwise.
ViewValue(n, d) ==
    IF tracked_nodes[n].substates[d].tag = "Vacant" THEN substate_db[n][d]
    ELSE get(tracked_nodes[n].substates[d])

ViewKeys(n) == {d \in Keys : ViewValue(n, d) # NoValue}

\* items are the values of count keys of the view, or of all its keys when it
\* has fewer, each key giving one item.
ValuesOfView(n, items, count) ==
    \E S \in SUBSET ViewKeys(n) :
        /\ Cardinality(S) = IF count < Cardinality(ViewKeys(n)) THEN count
                            ELSE Cardinality(ViewKeys(n))
        /\ Len(items) = Cardinality(S)
        /\ \E f \in [1..Len(items) -> S] :
                /\ \A i, j \in 1..Len(items) : f[i] = f[j] => i = j
                /\ \A i \in 1..Len(items) : items[i] = ViewValue(n, f[i])

\* C14: scan and scan_sorted over a node's module return the values of exactly
\* the keys that exist at that moment in the overlay-over-store view, limited to
\* the requested count.
C14_ScansSeeOverlay ==
    [][\A n \in Nodes, count \in 1..MaxKey :
            /\ (last'.op = "scan" /\ scan_substates(n, count)) =>
                    ValuesOfView(n, last'.items, count)
            /\ (last'.op = "scan_sorted" /\ scan_sorted_substates(n, count)) =>
                    ValuesOfView(n, last'.items, count)]_vars

\* The scans: the operation names and the calls.
IsScanOf(n) ==
    \E count \in 1..MaxKey :
        \/ last'.op = "scan" /\ scan_substates(n, count)
        \/ last'.op = "scan_sorted" /\ scan_sorted_substates(n, count)
        \/ last'.op = "take_n" /\ take_substates(n, count)

\* No step lowers or erases the watermark of a module (None is below every
\* watermark).
WatermarkKept == \A n \in Nodes : tracked_nodes'[n].range_read >= tracked_nodes[n].range_read

\* The overlay alone holds more than count keys' worth of entries: while going
\* through the tracked keys the scan has its count of values before the last one.
OverlayAnswers(n, count) ==
    \E d \in Keys :
        /\ tracked_nodes[n].substates[d].tag # "Vacant"
        /\ Cardinality({e \in 1..(d - 1) : get(tracked_nodes[n].substates[e]) # NoValue}) >= count

C16_DiffViewsAgree ==
    phase \in {"running", "reverted"} =>
        \A n \in Nodes :
            /\ Cardinality({d \in Keys : database_updates[n][d] # NoUpdate})
                    = Cardinality({k \in SubstateKeys : system_updates[n][k] # NoUpdate})
            /\ \A k \in Keys :
                    /\ system_updates[n][k] = database_updates[n][map_to_db_key(k)]
                    /\ Tracked(tracked_nodes, n, k).tag
                            \in {"ReadOnlyExistent", "ReadOnlyNonExistent", "Garbage"} =>
                                /\ system_updates[n][k] = NoUpdate
                                /\ database_updates[n][map_to_db_key(k)] = NoUpdate

(***************************************************************************)
(* Further claims about the fee reserve.                                    *)
(***************************************************************************)
\* The charge of cost_units would take the units consumed above the limit.
OverLimit(cost_units) ==
    fee_reserve.total_cost_units_consumed + cost_units > fee_reserve.cost_unit_limit

\* The charge was refused with LimitExceeded and has consumed nothing.
RefusedOverLimit ==
    /\ tx'.error = "LimitExceeded"
    /\ fee_reserve' = fee_reserve

\* C17: the number of cost units consumed never exceeds the cost unit limit: a
\* charge that would take the total above the limit fails with LimitExceeded
\* and consumes nothing.
C17_ConsumedWithinLimit ==
    [][/\ fee_reserve'.total_cost_units_consumed <= fee_reserve'.cost_unit_limit
       /\ \A cost_units \in 0..MaxUnits :
            OverLimit(cost_units) =>
                /\ consume(fee_reserve, cost_units, execution_price(fee_reserve))
                        = FeeResult("LimitExceeded", fee_reserve)
                /\ \A reason \in Reasons :
                        tx_consume_execution(cost_units, reason) => RefusedOverLimit
                /\ \A receiver \in Receivers :
                        tx_consume_royalty(receiver, cost_units) => RefusedOverLimit]_vars

\* C17 witness: a transaction that had consumed cost units has been stopped by
\* LimitExceeded.
C17_Witness ==
    /\ tx.phase = "ended" /\ tx.error = "LimitExceeded"
    /\ fee_reserve.total_cost_units_consumed > 0
    /\ fee_reserve.total_cost_units_consumed + MaxUnits > fee_reserve.cost_unit_limit

\* The reserve after a charge of units at price of which from_loan units are
\* paid out of the loan and the others out of the XRD balance.
Charged(fr, units, from_loan, price) ==
    [fr EXCEPT !.xrd_owed = @ + price * from_loan,
               !.remaining_loan_balance = @ - from_loan,
               !.remaining_xrd_balance = @ - price * (units - from_loan),
               !.total_cost_units_consumed = @ + units]

\* C18 as stated: while the remaining loan is greater than zero a charge within
\* the limit is paid out of the loan, adding units x effective execution price
\* to xrd_owed without reducing the XRD balance; once the loan is exhausted the
\* charge is paid from remaining_xrd_balance and fails with InsufficientBalance
\* if that is too small.
C18_LoanWhileAnyLeft ==
    \A units \in 0..MaxUnits :
        LET price == execution_price(fee_reserve)
            c == consume(fee_reserve, units, price)
        IN  ~OverLimit(units) =>
                IF fee_reserve.remaining_loan_balance > 0
                THEN /\ c.err = FeeOk
                     /\ c.fr.xrd_owed = fee_reserve.xrd_owed + units * price
                     /\ c.fr.remaining_xrd_balance = fee_reserve.remaining_xrd_balance
                ELSE IF fee_reserve.remaining_xrd_balance < units * price
                THEN c = FeeResult("InsufficientBalance", fee_reserve)
                ELSE c = FeeResult(FeeOk, Charged(fee_reserve, units, 0, price))

\* C18 (amended): a charge within the limit takes min(units, remaining loan)
\* units out of the loan, adding that many units x effective execution price to
\* xrd_owed, and pays the other units from remaining_xrd_balance; if the balance
\* is too small for them the charge fails with InsufficientBalance and changes
\* nothing, also while some of the loan is left. The effective execution price
\* is base + floor(base x tip / 100).
C18_LoanThenBalance ==
    /\ execution_price(fee_reserve) =
            fee_reserve.cost_unit_price
                + (fee_reserve.cost_unit_price * fee_reserve.tip_percentage) \div 100
    /\ \A units \in 0..MaxUnits :
            LET price == execution_price(fee_reserve)
                c == consume(fee_reserve, units, price)
                from_loan == IF fee_reserve.remaining_loan_balance < units
                             THEN fee_reserve.remaining_loan_balance ELSE units
            IN  ~OverLimit(units) =>
                    IF fee_reserve.remaining_xrd_balance < price * (units - from_loan)
                    THEN c = FeeResult("InsufficientBalance", fee_reserve)
                    ELSE c = FeeResult(FeeOk, Charged(fee_reserve, units, from_loan, price))

\* C18 witness: a charge larger than what is left of the loan has failed with
\* InsufficientBalance, leaving the rest of the loan and the amount owed.
C18_Witness ==
    /\ tx.phase = "ended" /\ tx.error = "InsufficientBalance"
    /\ fee_reserve.remaining_loan_balance > 0
    /\ fee_reserve.xrd_owed > 0

\* The deferred execution charges of fr are in the live execution costs of to,
\* and none are left deferred.
DeferredMoved(fr, to) ==
    /\ \A r \in Reasons :
            /\ to.execution[r] = fr.execution[r] + fr.execution_deferred[r]
            /\ to.execution_deferred[r] = 0
    /\ to.execution_deferred_total = 0

\* C19 as stated, for a reserve without the configured abort: repay_all moves
\* all deferred execution charges into the live execution costs and subtracts
\* xrd_owed from the XRD balance, leaving nothing owed; its only failure is
\* LoanRepaymentFailed, for a balance smaller than the amount owed.
C19_RepaysOrRepaymentFailed ==
    LET r == repay_all(fee_reserve)
    IN  ~fee_reserve.abort_when_loan_repaid =>
            \/ /\ r.err = "LoanRepaymentFailed"
               /\ r.fr.remaining_xrd_balance < r.fr.xrd_owed
            \/ /\ r.err = FeeOk
               /\ DeferredMoved(fee_reserve, r.fr)
               /\ r.fr.xrd_owed = 0

\* C19 (amended): repay_all first charges the sum of the deferred execution
\* charges as one charge at the execution price; if that charge fails (with
\* LimitExceeded or InsufficientBalance) repay_all fails with the same error and
\* changes nothing. Otherwise it moves all deferred charges into the live
\* execution costs; if the XRD balance is then smaller than xrd_owed it fails
\* with LoanRepaymentFailed, the charges staying moved and the amount staying
\* owed; else it subtracts xrd_owed from the balance, leaves nothing owed, and
\* returns Ok, or the error Abort when the reserve aborts on loan repayment.
C19_ChargesDeferredThenRepays ==
    LET r == repay_all(fee_reserve)
        sum == SumOver(fee_reserve.execution_deferred, Reasons)
        c == consume(fee_reserve, sum, execution_price(fee_reserve))
    IN  IF c.err # FeeOk
        THEN /\ c.err \in {"LimitExceeded", "InsufficientBalance"}
             /\ r = FeeResult(c.err, fee_reserve)
        ELSE /\ DeferredMoved(fee_reserve, r.fr)
             /\ r.fr.total_cost_units_consumed = fee_reserve.total_cost_units_consumed + sum
             /\ r.fr.remaining_loan_balance = c.fr.remaining_loan_balance
             /\ r.fr.royalty = fee_reserve.royalty
             /\ r.fr.payments = fee_reserve.payments
             /\ IF c.fr.remaining_xrd_balance < c.fr.xrd_owed
                THEN /\ r.err = "LoanRepaymentFailed"
                     /\ r.fr.xrd_owed = c.fr.xrd_owed
                     /\ r.fr.remaining_xrd_balance = c.fr.remaining_xrd_balance
                ELSE /\ r.err = IF fee_reserve.abort_when_loan_repaid THEN "Abort" ELSE FeeOk
                     /\ r.fr.xrd_owed = 0
                     /\ r.fr.remaining_xrd_balance = c.fr.remaining_xrd_balance - c.fr.xrd_owed

\* C19 witness: the last repay_all of a transaction has charged and moved the
\* deferred charges and repaid an amount owed out of the locked fee.
C19_Witness ==
    /\ tx.phase = "ended" /\ tx.receipt = "CommitSuccess"
    /\ fee_reserve.execution["TxBaseCost"] > 0
    /\ fee_reserve.execution_deferred_total = 0
    /\ fee_reserve.remaining_loan_balance \in 1..(MaxLoan - 1)
    /\ fee_reserve.xrd_owed = 0

\* C20: lock_fee increases the XRD balance by exactly the locked amount unless
\* the payment is contingent, in which case the balance is unchanged; in both
\* cases it appends one payment record (vault, amount, contingent) and changes
\* nothing else; a fee in a resource other than XRD fails with NotXrd and
\* changes nothing.
C20_LockFeeAddsToBalance ==
    [][\A fee \in FeeChoices, contingent \in BOOLEAN :
        tx_lock_fee("vault", fee, contingent) =>
            IF fee.resource_address = "RADIX_TOKEN"
            THEN /\ tx'.error = NoError
                 /\ fee_reserve'.remaining_xrd_balance =
                        fee_reserve.remaining_xrd_balance + (IF contingent THEN 0 ELSE fee.amount)
                 /\ fee_reserve'.payments =
                        Append(fee_reserve.payments,
                               [vault_id |-> "vault", amount |-> fee.amount,
                                contingent |-> contingent])
                 /\ fee_reserve' = [fee_reserve EXCEPT
                        !.remaining_xrd_balance = fee_reserve'.remaining_xrd_balance,
                        !.payments = fee_reserve'.payments]
            ELSE /\ tx'.error = "NotXrd"
                 /\ fee_reserve' = fee_reserve]_vars

\* C20 witness: a contingent and a non-contingent fee have been locked and
\* nothing was charged yet; the balance is the non-contingent amount.
C20_Witness ==
    /\ tx.phase = "executing"
    /\ Len(fee_reserve.payments) = 2
    /\ fee_reserve.payments[1].contingent /\ ~fee_reserve.payments[2].contingent
    /\ fee_reserve.total_cost_units_consumed = 0
    /\ fee_reserve.remaining_xrd_balance = fee_reserve.payments[2].amount

\* The XRD the reserve has at its disposal: the balance less the amount owed
\* for what the loan has paid.
NetXrd(fr) == fr.remaining_xrd_balance - fr.xrd_owed

\* What the repay_all at the end of a charge takes for the deferred charges, if
\* the step ran it.
DeferredCharged ==
    IF fee_reserve'.execution_deferred_total # fee_reserve.execution_deferred_total
    THEN execution_price(fee_reserve) * fee_reserve.execution_deferred_total
    ELSE 0

\* C21: a royalty of n cost units is charged at the base cost-unit price with no
\* tip: a successful charge reduces the funds available by n x cost_unit_price
\* whatever the tip percentage (besides what a repayment takes for the deferred
\* charges), and the fee summary's total royalty cost grows by that same amount.
C21_RoyaltyAtBasePrice ==
    [][\A receiver \in Receivers, n \in 1..MaxUnits :
        (tx'.phase = "executing" /\ tx_consume_royalty(receiver, n)) =>
            /\ NetXrd(fee_reserve') =
                    NetXrd(fee_reserve) - n * fee_reserve.cost_unit_price - DeferredCharged
            /\ finalize(fee_reserve').total_royalty_cost_xrd =
                    finalize(fee_reserve).total_royalty_cost_xrd
                        + n * fee_reserve.cost_unit_price]_vars

RECURSIVE LockedXrd(_)
\* The XRD the payments have added to the balance: the amounts of the payments
\* that are not contingent.
LockedXrd(payments) ==
    IF payments = <<>> THEN 0
    ELSE (IF Head(payments).contingent THEN 0 ELSE Head(payments).amount)
            + LockedXrd(Tail(payments))

\* The XRD the charges and the repayment have taken from the locked fees.
XrdTaken(fr) == LockedXrd(fr.payments) - fr.remaining_xrd_balance

\* C22: for every receipt that is not a rejection the fee summary is consistent:
\* the amount paid is non-negative, and the XRD taken from the locked fee
\* payments plus any bad debt equals the reported total execution cost plus
\* total royalty cost.
C22_FeeSummaryConsistent ==
    (tx.phase = "ended" /\ tx.receipt # "Reject") =>
        /\ XrdTaken(fee_reserve) >= 0
        /\ XrdTaken(fee_reserve) + finalize(fee_reserve).bad_debt_xrd =
                finalize(fee_reserve).total_execution_cost_xrd
                    + finalize(fee_reserve).total_royalty_cost_xrd

\* The errors of a charge that the balance or the limit does not allow.
ChargeRefusals == {"InsufficientBalance", "LimitExceeded"}

\* C23: a charge that fails with InsufficientBalance or LimitExceeded leaves the
\* fee reserve unchanged: consumed cost units, remaining loan, XRD balance,
\* amount owed and the cost breakdown all keep their previous values.
C23_FailedChargeChangesNothing ==
    [][\A cost_units \in 0..MaxUnits :
        /\ consume(fee_reserve, cost_units, execution_price(fee_reserve)).err \in ChargeRefusals
                => consume(fee_reserve, cost_units, execution_price(fee_reserve)).fr = fee_reserve
        /\ \A reason \in Reasons :
                (tx'.error \in ChargeRefusals /\ tx_consume_execution(cost_units, reason))
                    => fee_reserve' = fee_reserve
        /\ \A receiver \in Receivers :
                (tx'.error \in ChargeRefusals /\ tx_consume_royalty(receiver, cost_units))
                    => fee_reserve' = fee_reserve]_vars

(***************************************************************************)
(* Claims about the system service.                                         *)
(***************************************************************************)
\* The three module roles besides SELF.
AttachedModuleIds == ObjectModuleIds \ {"SELF"}

\* Every attached module of the map is an object of the blueprint of its role.
ModulesWellTyped(nodes, modules) ==
    \A m \in AttachedModuleIds \cap DOMAIN modules :
        /\ nodes[modules[m]].type_info.kind = "Object"
        /\ nodes[modules[m]].type_info.blueprint = ExpectedModule(m).blueprint

\* The self node of the map is a live object that is not global.
SelfGlobalizable(nodes, modules) ==
    /\ "SELF" \in DOMAIN modules
    /\ nodes[modules["SELF"]].type_info.kind = "Object"
    /\ ~nodes[modules["SELF"]].type_info.global

\* The self node of the map is live and is global or not an object.
SelfRefused(nodes, modules) ==
    /\ "SELF" \in DOMAIN modules
    /\ nodes[modules["SELF"]].type_info.kind # "None"
    /\ ~SelfGlobalizable(nodes, modules)

C25_GlobalizeMovesModules ==
    \A modules \in ModuleMaps :
        LET r == globalize(sys_nodes, sys_next_id, modules)
            self == sys_nodes[modules["SELF"]]
            global == r.nodes[r.ret]
        IN  (r.err = "Ok" /\ r.ret \in SysNodeIds) =>
                /\ \A m \in DOMAIN modules : r.nodes[modules[m]] = NoSysNode
                /\ r.ret \notin {modules[m] : m \in DOMAIN modules}
                /\ sys_nodes[r.ret] = NoSysNode
                /\ \A n \in SysNodeIds \ ({r.ret} \cup {modules[m] : m \in DOMAIN modules}) :
                        r.nodes[n] = sys_nodes[n]
                /\ global.present = {"Object", "Metadata", "Royalty", "AccessRules"}
                /\ global.substates["Object"] = self.substates["Object"]
                /\ global.substates["Metadata"] =
                        sys_nodes[modules["Metadata"]].substates["Virtualized"]
                /\ global.substates["Royalty"] =
                        sys_nodes[modules["Royalty"]].substates["Object"]
                /\ global.substates["AccessRules"] =
                        sys_nodes[modules["AccessRules"]].substates["Object"]
                /\ global.type_info = [self.type_info EXCEPT !.global = TRUE]
                /\ ~self.type_info.global

\* A globalize call has succeeded: the node at the address it returned is on
\* the heap, and the royalty and access-rules substates it holds differ.
C25_Witness ==
    /\ sys_last.op = "globalize" /\ sys_last.result = "Ok"
    /\ sys_nodes[sys_last.ret].type_info.global
    /\ sys_nodes[sys_last.ret].substates["Royalty"] # sys_nodes[sys_last.ret].substates["AccessRules"]

\* The entity type the design gives the global address of a blueprint.
ExpectedGlobalEntityType(blueprint) ==
    CASE blueprint = Blueprint_new("PACKAGE_PACKAGE", "Package") -> "GlobalPackage"
      [] blueprint = Blueprint_new("RESOURCE_PACKAGE", "FungibleResourceManager") -> "GlobalFungibleResource"
      [] blueprint = Blueprint_new("RESOURCE_PACKAGE", "NonFungibleResourceManager") -> "GlobalNonFungibleResource"
      [] blueprint = Blueprint_new("EPOCH_MANAGER_PACKAGE", "EpochManager") -> "GlobalEpochManager"
      [] blueprint = Blueprint_new("EPOCH_MANAGER_PACKAGE", "Validator") -> "GlobalValidator"
      [] blueprint = Blueprint_new("CLOCK_PACKAGE", "Clock") -> "GlobalClock"
      [] blueprint = Blueprint_new("ACCESS_CONTROLLER_PACKAGE", "AccessController") -> "GlobalAccessController"
      [] blueprint = Blueprint_new("ACCOUNT_PACKAGE", "Account") -> "GlobalAccount"
      [] blueprint = Blueprint_new("IDENTITY_PACKAGE", "Identity") -> "GlobalIdentity"
      [] OTHER -> "GlobalGenericComponent"

\* The entity type the design gives the id of an object that is not global.
ExpectedInternalEntityType(blueprint) ==
    CASE blueprint = Blueprint_new("RESOURCE_PACKAGE", "FungibleVault") -> "InternalFungibleVault"
      [] blueprint = Blueprint_new("RESOURCE_PACKAGE", "NonFungibleVault") -> "InternalNonFungibleVault"
      [] blueprint = Blueprint_new("ACCOUNT_PACKAGE", "Account") -> "InternalAccount"
      [] OTHER -> "InternalGenericComponent"

\* C26: the entity type of every allocated node id is the one expected for the
\* object's (package, blueprint) pair: an internal type for an object made by
\* new_object, a global type for an object made by globalize (package
\* blueprint => GlobalPackage, fungible resource manager =>
\* GlobalFungibleResource, account => GlobalAccount, and so on, every other
\* blueprint GlobalGenericComponent).
C26_EntityTypeOfBlueprint ==
    \A n \in SysNodeIds :
        sys_nodes[n].type_info.kind = "Object" =>
            sys_nodes[n].entity_type =
                IF sys_nodes[n].type_info.global
                THEN ExpectedGlobalEntityType(sys_nodes[n].type_info.blueprint)
                ELSE ExpectedInternalEntityType(sys_nodes[n].type_info.blueprint)

\* The type the schema declares for a substate: the value type of a key-value
\* store, the type of a field of an object's blueprint; "None" where nothing
\* is declared (TypeInfoSubstate::Index and ::SortedIndex carry no schema).
DeclaredType(nodes, node_id, module_id, substate_key) ==
    LET type_info == nodes[node_id].type_info
        substates == BlueprintSchema(type_info.blueprint).substates
    IN  CASE type_info.kind = "KeyValueStore" /\ substate_key[1] = "Map" -> type_info.value
          [] type_info.kind = "Object" /\ module_id = "Object" /\ substate_key[1] = "Tuple"
                /\ substate_key[2] < Len(substates) -> substates[substate_key[2] + 1]
          [] OTHER -> "None"

\* A write of buffer to a substate was validated against the type declared
\* for the substate, or it failed and left the heap unchanged.
WriteValidated(node_id, module_id, substate_key, buffer) ==
    LET type == DeclaredType(sys_nodes, node_id, module_id, substate_key)
    IN  \/ type # "None" /\ validate_payload_against_schema(buffer, type)
        \/ sys_last'.result # "Ok" /\ sys_nodes' = sys_nodes

\* Writes through a lock on an object field or a key-value store entry.
FieldWritesValidated ==
    \A lock_handle \in 1..MaxHandles, buffer \in Buffers :
        (/\ lock_handle \in 1..Len(sys_locks)
         /\ sys_locks[lock_handle].open
         /\ sys_write_substate(lock_handle, buffer))
            => WriteValidated(sys_locks[lock_handle].node_id, sys_locks[lock_handle].module_id,
                              sys_locks[lock_handle].substate_key, buffer)

\* C27: every write to a user-visible substate (object field, key-value store
\* entry, index entry, sorted-index entry) is validated against the schema
\* declared for it before it takes effect; a payload that does not match
\* fails the write and leaves the substate unchanged.
C27_WritesValidated ==
    [][/\ FieldWritesValidated
       /\ \A node_id \in SubTargets, buffer \in Buffers :
            sys_insert_into_index(node_id, 1, buffer)
                => WriteValidated(node_id, "Object", <<"Map", 1>>, buffer)
       /\ \A node_id \in SubTargets, buffer \in Buffers :
            sys_insert_into_sorted_index(node_id, 1, buffer)
                => WriteValidated(node_id, "Object", <<"Sorted", 1>>, buffer)]_vars

\* A lock call has acquired nothing, or a lock on a field of a fungible vault.
OnlyVaultFieldLocked ==
    IF sys_last'.result = "Ok"
    THEN /\ sys_locks' # sys_locks
         /\ LET info == sys_locks'[Len(sys_locks')]
            IN  /\ sys_nodes[info.node_id].type_info.blueprint = FungibleVaultBlueprint
                /\ info.substate_key[1] = "Tuple"
    ELSE sys_locks' = sys_locks

\* The lock calls of an object's own fields and of key-value store entries
\* with unmodified-base or force-write.
OwnFieldLocksChecked ==
    \A actor \in SubActors, flags \in LockFlagsChoices :
        (flags.unmodified_base \/ flags.force_write) =>
            /\ \A field \in {0, 1} :
                sys_lock_field(actor, field, flags) =>
                    /\ OnlyVaultFieldLocked
                    /\ (actor.kind = "Method" /\ actor.blueprint # FungibleVaultBlueprint)
                            => sys_last'.result = "InvalidLockFlags"
            /\ \A node_id \in SubTargets :
                sys_lock_key_value_store_entry(actor, node_id, 1, flags) =>
                    /\ OnlyVaultFieldLocked
                    /\ sys_last'.result = "InvalidLockFlags"

\* C30: through the system API a lock carrying unmodified-base or force-write
\* is acquired only on a field of a fungible vault; on any other object field
\* (the actor's own or its parent's) or on a key-value store entry the
\* request fails with InvalidLockFlags and no lock is acquired.
C30_FeeFlagsOnlyOnVaultField ==
    [][/\ OwnFieldLocksChecked
       /\ \A actor \in SubActors, field \in {0, 1}, flags \in LockFlagsChoices :
            ((flags.unmodified_base \/ flags.force_write)
                    /\ sys_lock_parent_field(actor, field, flags))
                => /\ OnlyVaultFieldLocked
                   /\ (/\ actor.kind = "Method"
                       /\ actor.outer_object # 0
                       /\ sys_nodes[actor.outer_object].substates["Object"][<<"Tuple", field>>] # NoSubstate)
                            => sys_last'.result = "InvalidLockFlags"]_vars

\* The identifier of an event of the actor.
EventIdentifierOf(actor, event_name) ==
    IF actor.kind = "Method" THEN MethodEmitter(actor.node_id, actor.module_id, event_name)
    ELSE FunctionEmitter(actor.blueprint, event_name)

\* C28: emit_event records an event only if the event name is registered in
\* the schema of the emitting actor's blueprint and the payload validates
\* against that entry; otherwise it fails and no event is added to the event
\* list.
C28_EventsValidated ==
    [][\A actor \in EvtActors, event_name \in EventNames, event_data \in EventData :
        sys_emit_event(actor, event_name, event_data) =>
            LET registered ==
                    event_name \in BlueprintSchema(EmitterBlueprint(sys_nodes, actor)).event_schema
                valid == validate_payload_against_schema(event_data, "U8")
            IN  /\ sys_events' # sys_events =>
                    /\ registered /\ valid /\ sys_last'.result = "Ok"
                    /\ sys_events' = Append(sys_events,
                                           [identifier |-> EventIdentifierOf(actor, event_name),
                                            data |-> event_data])
                /\ ~(registered /\ valid) =>
                    /\ sys_last'.result # "Ok"
                    /\ sys_events' = sys_events]_vars

\* An event has been recorded and the next one, of a name that is not
\* registered, has been refused.
C28_Witness ==
    /\ sys_last.op = "emit_event"
    /\ sys_last.result = "SchemaNotFoundError"
    /\ Len(sys_events) = 1

\* C29: the application events of a receipt are exactly the events emitted by
\* the transaction, in the order in which they were emitted: every successful
\* emit_event adds its event at the end of the list, no other call changes the
\* list, and the receipt lists the events one for one, an emitter that has
\* been globalized being named by its global address.
C29_ReceiptEventsInOrder ==
    [][/\ \A actor \in EvtActors, event_name \in EventNames, event_data \in EventData :
            sys_emit_event(actor, event_name, event_data) =>
                sys_events' = IF sys_last'.result = "Ok"
                              THEN Append(sys_events,
                                          [identifier |-> EventIdentifierOf(actor, event_name),
                                           data |-> event_data])
                              ELSE sys_events
       /\ \A modules \in EvtModuleMaps : sys_globalize(modules) => sys_events' = sys_events
       /\ sys_finish =>
            /\ Len(sys_receipt') = Len(sys_events)
            /\ \A i \in 1..Len(sys_events) :
                LET emitted == sys_events[i]
                    listed == sys_receipt'[i]
                    moved == sys_replacements[emitted.identifier.node_id]
                IN  /\ listed.data = emitted.data
                    /\ listed.identifier.local_type_index = emitted.identifier.local_type_index
                    /\ listed.identifier.kind = emitted.identifier.kind
                    /\ \/ listed.identifier = emitted.identifier
                       \/ /\ emitted.identifier.kind = "Method"
                          /\ moved # NoReplacement
                          /\ listed.identifier.node_id = moved.node_id]_vars

\* A receipt with two different events, the first emitted by the object
\* before it became global.
C29_Witness ==
    /\ sys_last.op = "finish"
    /\ Len(sys_receipt) = 2
    /\ sys_receipt[1].data # sys_receipt[2].data
    /\ sys_events[1].identifier.node_id # sys_receipt[1].identifier.node_id

\* C37: a globalize call that fails (wrong module set, wrong module blueprint,
\* self node already global) has no effect: none of the source nodes is
\* dropped and no node is created at the global address.
C37_FailedGlobalizeNoEffect ==
    \A modules \in ModuleMaps :
        LET r == globalize(sys_nodes, sys_next_id, modules)
        IN  r.err \in {"InvalidModuleSet", "InvalidModuleType", "CannotGlobalize"} =>
                r.nodes = sys_nodes

C39_AuthLocksReleased == auth_locks = {}

\* The outcomes of every execution charge and every royalty charge of at least
\* one cost unit that can be made in the current state.
ChargeOutcomes ==
    {consume_execution(fee_reserve, units, reason) :
        units \in 1..MaxUnits, reason \in {"TxBaseCost", "RunNative"}}
    \cup {consume_royalty(fee_reserve, receiver, units) :
            units \in 1..MaxUnits, receiver \in Receivers}

\* C38: after any successful execution or royalty charge that leaves the
\* remaining loan at zero, the loan and all deferred costs are fully repaid
\* (nothing owed, deferred total zero): the repayment is made in the call that
\* exhausts the loan, and a call whose repayment fails is not successful.
C38_RepaidWhenLoanExhausted ==
    tx.phase = "executing" =>
        \A r \in ChargeOutcomes :
            /\ (r.err = FeeOk /\ r.fr.remaining_loan_balance = 0) =>
                    (r.fr.xrd_owed = 0 /\ r.fr.execution_deferred_total = 0)
            /\ (r.fr.remaining_loan_balance = 0
                    /\ (r.fr.xrd_owed # 0 \/ r.fr.execution_deferred_total # 0)) =>
                    r.err \in {"LoanRepaymentFailed", "InsufficientBalance", "LimitExceeded"}

\* A charge that uses up a loan with deferred costs outstanding and succeeds.
C38_Witness ==
    /\ tx.phase = "executing"
    /\ fee_reserve.remaining_loan_balance > 0
    /\ fee_reserve.execution_deferred_total > 0
    /\ \E r \in ChargeOutcomes : r.err = FeeOk /\ r.fr.remaining_loan_balance = 0

\* C38 as stated, for every call including the one of zero cost units: after
\* any successful execution or royalty charge that leaves the remaining loan
\* at zero, nothing is owed and the deferred total is zero.
C38_EveryCallRepays ==
    tx.phase = "executing" =>
        \A units \in 0..MaxUnits :
            /\ \A reason \in {"TxBaseCost", "RunNative"} :
                LET r == consume_execution(fee_reserve, units, reason)
                IN  (r.err = FeeOk /\ r.fr.remaining_loan_balance = 0) =>
                        (r.fr.xrd_owed = 0 /\ r.fr.execution_deferred_total = 0)
            /\ \A receiver \in Receivers :
                LET r == consume_royalty(fee_reserve, receiver, units)
                IN  (r.err = FeeOk /\ r.fr.remaining_loan_balance = 0) =>
                        (r.fr.xrd_owed = 0 /\ r.fr.execution_deferred_total = 0)

\* C36: for every key, the lock state stored with the key matches the
\* outstanding handles on it (read count equal to the number of unreleased read
\* handles, write state exactly when one mutable handle is unreleased), so that
\* releasing any unreleased handle succeeds.
C36_LockStateMatchesHandles ==
    phase = "running" =>
        \A n \in Nodes, k \in Keys :
            LET t == Tracked(tracked_nodes, n, k)
                writers == {l \in HandlesOn(n, k) : l.flags.mutable}
                readers == HandlesOn(n, k) \ writers
            IN  /\ HandlesOn(n, k) # {} => has_runtime_substate(t)
                /\ has_runtime_substate(t) =>
                        IF writers # {}
                        THEN t.lock_state = WriteLock /\ Cardinality(writers) = 1 /\ readers = {}
                        ELSE t.lock_state = Cardinality(readers)

\* C35: for a node created in the current transaction, every update recorded
\* for it in the finalised diff is a Set; the diff never contains a Delete under
\* a newly created node, whatever sequence of set and take was applied to its
\* keys.
C35_NewNodeOnlySets ==
    \A n \in Nodes :
        (tracked_nodes[n].present /\ tracked_nodes[n].is_new) =>
            \A d \in Keys :
                /\ database_updates[n][d].kind # "Delete"
                /\ \A k \in SubstateKeys : system_updates[n][k].kind # "Delete"

(***************************************************************************)
(* Claims about non-fungible resources and their buckets.                   *)
(***************************************************************************)
\* The number of containers (the bucket's liquid set, its locked map, the
\* other buckets) that hold the id.
Copies(id) ==
    nf_held[id] + (IF id \in nf_bucket.liquid THEN 1 ELSE 0)
                + (IF nf_bucket.locked[id] > 0 THEN 1 ELSE 0)

IdsInBucket == {id \in nf_store : nf_held[id] = 0}

\* A take leaves what is locked where it is and hands out liquid ids only.
TakeSparesLocked ==
    /\ nf_bucket'.locked = nf_bucket.locked
    /\ nf_last'.ids \cap locked_ids(nf_bucket) = {}
    /\ nf_last'.ids = nf_bucket.liquid \ nf_bucket'.liquid
    /\ nf_last'.result # "Ok" => nf_bucket' = nf_bucket

\* C32: while a non-fungible id is locked by a proof it cannot be taken out of
\* its bucket (a take by ids that names it fails, a take by amount reaches the
\* liquid ids only), yet it still counts towards the amount and the id set the
\* bucket reports; the locked part never exceeds the total held.
C32_LockedStaysAndCounts ==
    /\ [](/\ get_non_fungible_local_ids(nf_bucket) = IdsInBucket
          /\ get_amount(nf_bucket) = Cardinality(IdsInBucket) * One
          /\ locked_ids(nf_bucket) \subseteq IdsInBucket
          /\ Cardinality(locked_ids(nf_bucket)) * One <= get_amount(nf_bucket))
    /\ [][/\ \A ids \in IdSets :
                nf_take_non_fungibles(ids) =>
                    /\ TakeSparesLocked
                    /\ ids \cap locked_ids(nf_bucket) # {} => nf_last'.result # "Ok"
          /\ \A amount \in NfAmounts, first \in SUBSET NonFungibleLocalIds :
                nf_take(amount, first) =>
                    /\ TakeSparesLocked
                    /\ amount > Cardinality(nf_bucket.liquid) * One => nf_last'.result # "Ok"]_vars

\* A take by amount has succeeded on a bucket that holds a locked id, a take
\* of which by id would fail, and the locked id counts in the amount.
C32_Witness ==
    /\ nf_last.op = "take"
    /\ nf_last.result = "Ok"
    /\ nf_last.ids # {}
    /\ nf_proofs # <<>>
    /\ \E id \in locked_ids(nf_bucket) :
            take_non_fungibles(nf_bucket, {id}).err = "NonFungibleNotFound"
    /\ get_amount(nf_bucket) > Cardinality(nf_bucket.liquid) * One

\* The number of proofs created from the bucket and not yet dropped that hold the id.
ProofsOf(id) == Cardinality({i \in 1..Len(nf_proofs) : id \in nf_proofs[i]})

\* C33: each id held by the bucket is in exactly one of its liquid set and its
\* locked map; locking a set of ids raises each id's lock count by one (moving
\* it out of liquid on the first lock) and unlocking lowers it by one,
\* returning the id to liquid exactly when its count reaches zero, so that once
\* every proof created from the bucket has been dropped the whole content is
\* liquid again.
C33_LiquidXorLocked ==
    /\ [](/\ nf_bucket.liquid \cap locked_ids(nf_bucket) = {}
          /\ nf_bucket.liquid \cup locked_ids(nf_bucket) = IdsInBucket
          /\ \A id \in NonFungibleLocalIds : nf_bucket.locked[id] = ProofsOf(id)
          /\ nf_proofs = <<>> => nf_bucket.liquid = IdsInBucket)
    /\ [][/\ \A ids \in IdSets :
                (nf_create_proof(ids) /\ nf_last'.result = "Ok") =>
                    \A id \in NonFungibleLocalIds :
                        /\ nf_bucket'.locked[id] =
                                nf_bucket.locked[id] + (IF id \in ids THEN 1 ELSE 0)
                        /\ id \in nf_bucket'.liquid <=> (id \in nf_bucket.liquid /\ id \notin ids)
          /\ \A i \in 1..MaxProofs :
                nf_drop_proof(i) =>
                    /\ nf_last'.result = "Ok"
                    /\ \A id \in NonFungibleLocalIds :
                        /\ nf_bucket'.locked[id] =
                                nf_bucket.locked[id] - (IF id \in nf_proofs[i] THEN 1 ELSE 0)
                        /\ id \in nf_bucket'.liquid <=>
                                \/ id \in nf_bucket.liquid
                                \/ id \in nf_proofs[i] /\ nf_bucket'.locked[id] = 0]_vars

\* A proof has been dropped that returned one of its ids to liquid while
\* another of them stays locked by a second proof.
C33_Witness ==
    /\ nf_last.op = "drop_proof"
    /\ nf_last.result = "Ok"
    /\ \E id \in nf_last.ids : id \in nf_bucket.liquid
    /\ \E id \in nf_last.ids : nf_bucket.locked[id] = 1

====
